---- MODULE Spec2Model ----
(***************************************************************************)
(* A state-machine model of the finite-volume assembly kernel:             *)
(*   - BoxElementContext  (dumux/boxmodels/common/boxelementcontext.hh)    *)
(*   - FVPressure1P       (dumux/decoupled/1p/diffusion/fv/fvpressure1p.hh)*)
(*   - OnePTwoCLocalResidual (dumux/boxmodels/1p2c/1p2clocalresidual.hh)   *)
(*   - EcfvDiscretization (opm/models/discretization/ecfv)                 *)
(*   - EclAluGridManager  (ebos/eclalugridmanager.hh)                      *)
(* Each component has specifications of its own; a specification leaves    *)
(* the other components' variables untouched.                              *)
(***************************************************************************)
EXTENDS Integers, Sequences, FiniteSets, TLC

(***************************************************************************)
(* Bounds of the model                                                     *)
(***************************************************************************)
\* largest number of vertices (sub-control volumes) of an element
MaxVertices == 2
\* largest number of edges (sub-control volume faces) of an element
MaxEdges == 1
\* at most MaxOpen saveScvVars calls are outstanding (not yet restored)
MaxOpen == 2
\* number of cells of the grid FVPressure1P assembles on
NumCells == 3
\* number of ranks (partitions) of the distributed grid
NumRanks == 2
\* at most MaxBalances calls of loadBalance()
MaxBalances == 2
\* at most MaxReleases calls of releaseEquilGrid()
MaxReleases == 2

\* GET_PROP_VALUE(TypeTag, TimeDiscHistorySize): implicit Euler keeps two levels
timeDiscHistorySize == 2

\* the values a primary variable takes in the model
PriVals == {0, 1}
TimeLevels == 0..(timeDiscHistorySize - 1)
ScvIndices == 0..(MaxVertices - 1)

\* the elements handed to the context: every vertex count and edge count
Elements == [numVertices : 1..MaxVertices, numEdges : 0..MaxEdges]

(***************************************************************************)
(* State                                                                   *)
(***************************************************************************)
VARIABLES
    \* ---- BoxElementContext ----
    fvElemGeom_,      \* the bound geometry: [numVertices, numEdges], or NoGeom
    scvVars_,         \* buffer 0..size-1 of ScvStore_ [priVars, volVars, hint]
    scvfVars_,        \* buffer 0..size-1 of FluxVariables
    scvIdxSaved_,     \* index of the saved sub-control volume (-1: none)
    scvVarsSaved_,    \* the saved VolumeVariables
    priVarsSaved_,    \* the saved PrimaryVariables
    scvfVarsSaved_,   \* the saved flux variables
    scvfVarsEval_,    \* which flux vector is the evaluation point
    \* ---- history variables of the context (observation only) ----
    proto,            \* the save / perturb / restore protocol of one CV
    base,             \* per CV: the time-level-0 values outside a perturbation
    openCnt,          \* per CV: saves not yet matched by a restore
    nested,           \* a save was issued while another save was outstanding
    undone,           \* a restore has undone a perturbation since the binding
    fluxSnap,         \* the flux variables at the last saveScvfVars()
    lastCall,         \* the operation of the context that ran last
    \* ---- FVPressure1P ----
    problem,          \* the problem: grid, fluid, boundary conditions (fixed)
    pattern,          \* the sparsity pattern of A_: per row the set of columns
    A_,               \* the coefficient matrix
    f_,               \* the right-hand side
    pressHard_,       \* the value of the hard constraint
    idxPressHard_,    \* the DOF of the hard constraint
    setPressHard_,    \* whether the hard constraint is set
    varPressure,      \* problem_.variables().pressure()
    varPotential,     \* problem_.variables().potential(globalIdx, isIndex)
    pc,               \* where the caller of initialize() / pressure() stands
    first,            \* the argument of the running assemble(first)
    again,            \* initialize(solveTwice): a second pass is still to come
    done,             \* the elements the running assemble() has finished
    cur,              \* the element assemble() is processing (-1: none)
    isIndex,          \* the intersection index within that element
    \* ---- history variables of FVPressure1P (observation only) ----
    threw,            \* the last call ended with an exception
    hardReq,          \* the last setPressureHard not yet unset, or NoHard
    offPattern,       \* an entry outside the sparsity pattern was written
    pot0,             \* the stored potentials when the current pass began
    dirtySeen,        \* what the passes so far found in A_ and f_ when they began
    \* ---- EcfvDiscretization on every rank ----
    solution,         \* per rank and time level: the local solution vector
    link,             \* per pair of ranks: the message in flight, or NoMsg
    syncPc,           \* per rank: where it stands in syncOverlap()
    \* ---- history variable of the exchange (observation only) ----
    refreshed,        \* an exchange has changed the value of a copy
    \* ---- EclAluGridManager and the grid view of the context ----
    distribution,     \* how often the grid has been redistributed
    gridView_,        \* the distribution the context's grid view was taken of
    raised,           \* a TopologyInvalidatedError was raised
    \* ---- OnePTwoCLocalResidual::computeFlux ----
    faceIn,           \* the face: the two CVs' volume variables, the gradients
    flux,             \* the flux vector computeFlux has filled in, or NoFlux
    \* ---- the restart file of EcfvDiscretization ----
    restartFile,      \* per rank: what serialize() wrote, or NoFile
    resumed,          \* per rank: deserialize() ran and no time step since
    \* ---- EclAluGridManager: the objects it owns ----
    grid_,            \* pointer to the simulation grid
    equilGrid_,       \* pointer to the EQUIL grid, or Null
    cartesianIndexMapper_,  \* pointer to the Cartesian index mapper
    heap,             \* per object: how often it has been deleted
    phase,            \* "created" until the destructor has run
    releases          \* how often releaseEquilGrid() has been called

ctxVars == <<fvElemGeom_, scvVars_, scvfVars_, scvIdxSaved_, scvVarsSaved_,
             priVarsSaved_, scvfVarsSaved_, scvfVarsEval_>>
protoHist == <<proto>>
pertHist == <<base, openCnt, nested, undone>>
evalHist == <<fluxSnap, lastCall>>
ctxHist == <<protoHist, pertHist, evalHist>>

fvVars == <<problem, pattern, A_, f_, pressHard_, idxPressHard_, setPressHard_,
            varPressure, varPotential, pc, first, again, done, cur, isIndex>>
fvHist == <<threw, hardReq, offPattern, pot0, dirtySeen>>
fvAll == <<fvVars, fvHist>>

parVars == <<solution, link, syncPc>>
parAll == <<parVars, refreshed>>
resVars == <<faceIn, flux>>
restartVars == <<restartFile, resumed>>
ownVars == <<grid_, equilGrid_, cartesianIndexMapper_, heap, phase, releases>>
moreVars == <<resVars, restartVars, ownVars>>
gridVars == <<distribution, gridView_, raised, moreVars>>
extAll == <<parAll, gridVars>>

vars == <<ctxVars, ctxHist, fvAll, extAll>>

(***************************************************************************)
(* BoxElementContext: values                                               *)
(***************************************************************************)
NoGeom == [numVertices |-> 0, numEdges |-> 0]
EmptyBuf == [i \in {} |-> 0]
Size(buf) == Cardinality(DOMAIN buf)

\* a default-constructed VolumeVariables / FluxVariables object
DefaultVolVars == [valid |-> FALSE, q |-> 0]
DefaultFluxVars == [valid |-> FALSE, q |-> 0]
NullHint == -1

\* std::vector::resize value-initializes the new ScvStore_ elements
DefaultScvStore ==
    [priVars |-> [t \in TimeLevels |-> 0],
     volVars |-> [t \in TimeLevels |-> DefaultVolVars],
     hint    |-> [t \in TimeLevels |-> NullHint]]

\* std::vector::resize(n): keeps the first elements, appends default ones
Resize(buf, n, fill) ==
    [i \in 0..(n - 1) |-> IF i \in DOMAIN buf THEN buf[i] ELSE fill]

\* vertexMapper.map(element(), scvIdx, dim): global index of a vertex
VertexMap(scvIdx) == scvIdx
\* model().solution(timeIdx)[globalIdx]: the global solution vector
GlobalSol(globalIdx, timeIdx) == (globalIdx + timeIdx) % Cardinality(PriVals)
\* model().hint(globalIdx, timeIdx): hints are disabled, the model returns 0
ModelHint(globalIdx, timeIdx) == NullHint

\* VolumeVariables::update: a pure function of the primary variables
VolVarsUpdate(priVars) == [valid |-> TRUE, q |-> priVars + 1]

\* the two sub-control volumes a face connects
FaceI(scvfIdx, nv) == scvfIdx % nv
FaceJ(scvfIdx, nv) == (scvfIdx + 1) % nv
\* FluxVariables::update(context, scvfIdx, 0): from the adjacent volVars
FluxVarsUpdate(buf, scvfIdx, nv) ==
    [valid |-> TRUE,
     q |-> buf[FaceI(scvfIdx, nv)].volVars[0].q
           + buf[FaceJ(scvfIdx, nv)].volVars[0].q]

numScv == fvElemGeom_.numVertices
numScvf == fvElemGeom_.numEdges
bound == fvElemGeom_ # NoGeom

\* the time-level-0 (priVars, volVars) pair of a slot
Level0(store) == [priVars |-> store.priVars[0], volVars |-> store.volVars[0]]

(***************************************************************************)
(* BoxElementContext: the operations on the buffers                        *)
(***************************************************************************)
\* a resize that is not guarded by the size comparison
GrowScvVars_unguarded(buf, nv) == Resize(buf, nv, DefaultScvStore)

\* updateFVElemGeom, lines 112-115: grow the SCV buffer if needed
GrowScvVars(buf, nv) ==
    IF nv > Size(buf) THEN Resize(buf, nv, DefaultScvStore) ELSE buf

\* updateFVElemGeom, lines 116-117: grow the SCVF buffer if needed
GrowScvfVars(buf, ne) ==
    IF ne > Size(buf) THEN Resize(buf, ne, DefaultFluxVars) ELSE buf

\* updateScvVars(priVars, scvIdx, timeIdx)
UpdateScv(buf, priVars, scvIdx, timeIdx) ==
    [buf EXCEPT ![scvIdx].priVars[timeIdx] = priVars,
                ![scvIdx].volVars[timeIdx] = VolVarsUpdate(priVars)]

\* updateScvVars(timeIdx): every sub-control volume of the element
UpdateScvLevel(buf, nv, timeIdx) ==
    [i \in DOMAIN buf |->
        IF i < nv
        THEN [priVars |-> [buf[i].priVars EXCEPT
                             ![timeIdx] = GlobalSol(VertexMap(i), timeIdx)],
              volVars |-> [buf[i].volVars EXCEPT
                             ![timeIdx] = VolVarsUpdate(GlobalSol(VertexMap(i), timeIdx))],
              hint    |-> [buf[i].hint EXCEPT
                             ![timeIdx] = ModelHint(VertexMap(i), timeIdx)]]
        ELSE buf[i]]

\* updateAllScvVars: the loop over the history
RECURSIVE UpdateLevelsFrom(_, _, _)
UpdateLevelsFrom(buf, nv, timeIdx) ==
    IF timeIdx >= timeDiscHistorySize THEN buf
    ELSE UpdateLevelsFrom(UpdateScvLevel(buf, nv, timeIdx), nv, timeIdx + 1)

UpdateAllScv(buf, nv) == UpdateLevelsFrom(buf, nv, 0)

\* updateAllScvfVars: every face of the element, with time level 0
UpdateAllScvf(fbuf, buf, nv, ne) ==
    [k \in DOMAIN fbuf |->
        IF k < ne THEN FluxVarsUpdate(buf, k, nv) ELSE fbuf[k]]

\* a save that snapshots the previous time level
SavedPriVars_prevLevel(buf, scvIdx) == buf[scvIdx].priVars[1]

\* saveScvVars: what is copied into the save slot
SavedVolVars(buf, scvIdx) == buf[scvIdx].volVars[0]
SavedPriVars(buf, scvIdx) == buf[scvIdx].priVars[0]

\* a restore that copies back the primary variables only
RestoreScv_priVarsOnly(buf, scvIdx, priSaved, volSaved) ==
    [buf EXCEPT ![scvIdx].priVars[0] = priSaved]

\* restoreScvVars: the buffer after the copy back
RestoreScv(buf, scvIdx, priSaved, volSaved) ==
    [buf EXCEPT ![scvIdx].priVars[0] = priSaved,
                ![scvIdx].volVars[0] = volSaved]

(***************************************************************************)
(* BoxElementContext: actions on the context's own state                   *)
(***************************************************************************)
updateFVElemGeom(elem) ==
    /\ UNCHANGED <<fvAll, extAll>>
    /\ fvElemGeom_' = elem
    /\ scvVars_' = GrowScvVars(scvVars_, elem.numVertices)
    /\ scvfVars_' = GrowScvfVars(scvfVars_, elem.numEdges)
    /\ UNCHANGED <<scvIdxSaved_, scvVarsSaved_, priVarsSaved_,
                   scvfVarsSaved_, scvfVarsEval_>>

updateAll(elem) ==
    /\ UNCHANGED <<fvAll, extAll>>
    /\ fvElemGeom_' = elem
    /\ scvVars_' = UpdateAllScv(GrowScvVars(scvVars_, elem.numVertices),
                                elem.numVertices)
    /\ scvfVars_' = UpdateAllScvf(GrowScvfVars(scvfVars_, elem.numEdges),
                                  scvVars_', elem.numVertices, elem.numEdges)
    /\ scvfVarsEval_' = "scvfVars_"
    /\ UNCHANGED <<scvIdxSaved_, scvVarsSaved_, priVarsSaved_, scvfVarsSaved_>>

updateAllScvVars ==
    /\ UNCHANGED <<fvAll, extAll>>
    /\ bound
    /\ scvVars_' = UpdateAllScv(scvVars_, numScv)
    /\ UNCHANGED <<fvElemGeom_, scvfVars_, scvIdxSaved_, scvVarsSaved_,
                   priVarsSaved_, scvfVarsSaved_, scvfVarsEval_>>

updateScvVarsLevel(timeIdx) ==
    /\ UNCHANGED <<fvAll, extAll>>
    /\ bound
    /\ scvVars_' = UpdateScvLevel(scvVars_, numScv, timeIdx)
    /\ UNCHANGED <<fvElemGeom_, scvfVars_, scvIdxSaved_, scvVarsSaved_,
                   priVarsSaved_, scvfVarsSaved_, scvfVarsEval_>>

updateScvVars(priVars, scvIdx, timeIdx) ==
    /\ UNCHANGED <<fvAll, extAll>>
    /\ bound
    /\ scvIdx < numScv
    /\ scvVars_' = UpdateScv(scvVars_, priVars, scvIdx, timeIdx)
    /\ UNCHANGED <<fvElemGeom_, scvfVars_, scvIdxSaved_, scvVarsSaved_,
                   priVarsSaved_, scvfVarsSaved_, scvfVarsEval_>>

updateAllScvfVars ==
    /\ UNCHANGED <<fvAll, extAll>>
    /\ bound
    /\ scvfVarsEval_' = "scvfVars_"
    /\ scvfVars_' = UpdateAllScvf(scvfVars_, scvVars_, numScv, numScvf)
    /\ UNCHANGED <<fvElemGeom_, scvVars_, scvIdxSaved_, scvVarsSaved_,
                   priVarsSaved_, scvfVarsSaved_>>

saveScvVars(scvIdx) ==
    /\ UNCHANGED <<fvAll, extAll>>
    /\ bound
    /\ scvIdx < numScv
    /\ scvIdxSaved_' = scvIdx
    /\ scvVarsSaved_' = SavedVolVars(scvVars_, scvIdx)
    /\ priVarsSaved_' = SavedPriVars(scvVars_, scvIdx)
    /\ UNCHANGED <<fvElemGeom_, scvVars_, scvfVars_, scvfVarsSaved_, scvfVarsEval_>>

\* a restore that also recomputes the flux variables of the element
restoreScvVars_recomputesFlux(scvIdx) ==
    /\ UNCHANGED <<fvAll, extAll>>
    /\ bound
    /\ scvIdx < numScv
    /\ scvIdxSaved_' = -1
    /\ scvVars_' = RestoreScv(scvVars_, scvIdx, priVarsSaved_, scvVarsSaved_)
    /\ scvfVars_' = UpdateAllScvf(scvfVars_, scvVars_', numScv, numScvf)
    /\ UNCHANGED <<fvElemGeom_, scvVarsSaved_, priVarsSaved_,
                   scvfVarsSaved_, scvfVarsEval_>>

restoreScvVars(scvIdx) ==
    /\ UNCHANGED <<fvAll, extAll>>
    /\ bound
    /\ scvIdx < numScv
    /\ scvIdxSaved_' = -1
    /\ scvVars_' = RestoreScv(scvVars_, scvIdx, priVarsSaved_, scvVarsSaved_)
    /\ UNCHANGED <<fvElemGeom_, scvfVars_, scvVarsSaved_, priVarsSaved_,
                   scvfVarsSaved_, scvfVarsEval_>>

saveScvfVars ==
    /\ UNCHANGED <<fvAll, extAll>>
    /\ scvfVarsSaved_' = scvfVars_
    /\ scvfVarsEval_' = "scvfVarsSaved_"
    /\ UNCHANGED <<fvElemGeom_, scvVars_, scvfVars_, scvIdxSaved_,
                   scvVarsSaved_, priVarsSaved_>>

restoreScvfVars ==
    /\ UNCHANGED <<fvAll, extAll>>
    /\ scvfVarsEval_' = "scvfVars_"
    /\ UNCHANGED <<fvElemGeom_, scvVars_, scvfVars_, scvIdxSaved_,
                   scvVarsSaved_, priVarsSaved_, scvfVarsSaved_>>

\* -- the read accessors --
volVars(scvIdx, timeIdx) == scvVars_[scvIdx].volVars[timeIdx]
fluxVars(scvfIdx, timeIdx) == scvfVars_[scvfIdx]

\* the vector scvfVarsEval_ points to
EvalVector(eval, current, saved) ==
    IF eval = "scvfVars_" THEN current ELSE saved

evalPointFluxVars(scvfIdx, timeIdx) ==
    IF timeIdx # 0
    THEN fluxVars(scvfIdx, timeIdx)
    ELSE EvalVector(scvfVarsEval_, scvfVars_, scvfVarsSaved_)[scvfIdx]

\* an evaluation point that ignores the save slot
evalPointVolVars_current(scvIdx, timeIdx) == volVars(scvIdx, timeIdx)

evalPointVolVars(scvIdx, timeIdx) ==
    IF timeIdx # 0
    THEN volVars(scvIdx, timeIdx)
    ELSE IF scvIdxSaved_ = scvIdx
         THEN scvVarsSaved_
         ELSE volVars(scvIdx, 0)

\* The constructor initializes neither scvIdxSaved_ nor priVarsSaved_ nor
\* scvfVarsEval_: their first values are whatever the memory held.
InitCtxVars ==
    /\ fvElemGeom_ = NoGeom
    /\ scvVars_ = EmptyBuf
    /\ scvfVars_ = EmptyBuf
    /\ scvIdxSaved_ \in (-1)..(MaxVertices - 1)
    /\ scvVarsSaved_ = DefaultVolVars
    /\ priVarsSaved_ \in PriVals
    /\ scvfVarsSaved_ = EmptyBuf
    /\ scvfVarsEval_ \in {"scvfVars_", "scvfVarsSaved_"}

(***************************************************************************)
(* History variables (observation only): how each operation moves them     *)
(***************************************************************************)
NoProto == [st |-> "none", cv |-> 0, priVars |-> 0,
            volVars |-> DefaultVolVars, pert |-> FALSE]

\* the baseline of every slot of a buffer
BaseOf(buf) == [i \in DOMAIN buf |-> Level0(buf[i])]
NoOpen == [i \in ScvIndices |-> 0]
RECURSIVE SumOpen(_, _)
SumOpen(cnt, n) == IF n = 0 THEN 0 ELSE cnt[n - 1] + SumOpen(cnt, n - 1)
TotalOpen == SumOpen(openCnt, MaxVertices)

\* no saveScvfVars() is outstanding; no operation has run yet
NoSnap == [st |-> "none", vars |-> EmptyBuf]
NoCall == [op |-> "none", scvIdx |-> -1, elem |-> NoGeom]

InitHist ==
    /\ proto = NoProto
    /\ base = EmptyBuf
    /\ openCnt = NoOpen
    /\ nested = FALSE
    /\ undone = FALSE
    /\ fluxSnap = NoSnap
    /\ lastCall = NoCall

\* -- the protocol of one CV: saved, perturbed, restored --
ProtoRebind == proto' = NoProto

\* an update that touches time level 0 of the CVs in touched
ProtoUpdate(touched) ==
    proto' = IF proto.st \in {"saved", "perturbed"} /\ proto.cv \in touched
             THEN [proto EXCEPT !.st = "perturbed",
                      !.pert = @ \/ Level0(scvVars_'[proto.cv])
                                     # [priVars |-> proto.priVars,
                                        volVars |-> proto.volVars]]
             ELSE IF proto.st = "restored" /\ proto.cv \in touched
                  THEN NoProto
                  ELSE proto

ProtoSave(scvIdx) ==
    proto' = [st |-> "saved", cv |-> scvIdx,
              priVars |-> scvVars_[scvIdx].priVars[0],
              volVars |-> scvVars_[scvIdx].volVars[0],
              pert |-> FALSE]

ProtoRestore(scvIdx) ==
    proto' = IF proto.st \in {"saved", "perturbed"} /\ proto.cv = scvIdx
             THEN [proto EXCEPT !.st = "restored"]
             ELSE NoProto

\* -- baselines and outstanding saves --
PertRebind ==
    /\ base' = BaseOf(scvVars_')
    /\ openCnt' = NoOpen
    /\ nested' = FALSE
    /\ undone' = FALSE

\* an update of time level 0 is a perturbation of a CV that is saved and a
\* new baseline of a CV that is not
PertUpdate(touched) ==
    /\ base' = [i \in DOMAIN base |->
                  IF i \in touched /\ openCnt[i] = 0
                  THEN Level0(scvVars_'[i]) ELSE base[i]]
    /\ UNCHANGED <<openCnt, nested, undone>>

PertSave(scvIdx) ==
    /\ TotalOpen < MaxOpen
    /\ openCnt' = [openCnt EXCEPT ![scvIdx] = @ + 1]
    /\ nested' = (nested \/ TotalOpen > 0)
    /\ UNCHANGED <<base, undone>>

\* a restore is issued for a CV with an outstanding save, which it matches
PertRestore(scvIdx) ==
    /\ openCnt[scvIdx] > 0
    /\ openCnt' = [openCnt EXCEPT ![scvIdx] = @ - 1]
    /\ undone' = (undone \/ Level0(scvVars_'[scvIdx]) # Level0(scvVars_[scvIdx]))
    /\ UNCHANGED <<base, nested>>

Touched(cvs, timeIdx) == IF timeIdx = 0 THEN cvs \cap 0..(numScv - 1) ELSE {}

(***************************************************************************)
(* FVPressure1P: grid and problem                                          *)
(*                                                                         *)
(* Numbers are integers in scaled units; the sets below are chosen such    *)
(* that every division of the assembly is exact.                           *)
(***************************************************************************)
\* a row of NumCells cells along the direction of gravity; every cell has
\* the intersections 0 (towards lower indices) and 1 (towards higher ones)
LineFaces(n) ==
    [i \in 0..(n - 1) |->
        [k \in 0..1 |->
            LET j == IF k = 0 THEN i - 1 ELSE i + 1
                inside == j \in 0..(n - 1)
            IN [neighbor |-> inside,
                boundary |-> ~inside,
                outside  |-> IF inside THEN j ELSE -1,
                normal   |-> IF k = 0 THEN -1 ELSE 1,
                dist     |-> IF inside THEN 2 ELSE 1,
                faceArea |-> 1]]]

\* traversal: the order in which the grid view's iterator visits the cells,
\* "ascending" by index or "free" (any order)
LineGrid(n, traversal) ==
    [n |-> n, faces |-> LineFaces(n), volume |-> [i \in 0..(n - 1) |-> 2],
     traversal |-> traversal]

Cells == 0..(problem.grid.n - 1)
Faces(i) == problem.grid.faces[i]
NumFaces(i) == Cardinality(DOMAIN Faces(i))
BoundaryFaces(grid) ==
    {<<i, k>> \in (0..(grid.n - 1)) \X (0..1) : grid.faces[i][k].boundary}

\* Fluid::density / Fluid::viscosity at the element's temperature and
\* reference pressure; problem_.source; intrinsicPermeability
Density(i) == problem.density[i]
Viscosity(i) == problem.viscosity[i]
Source(i) == problem.source[i]
IntrinsicPermeability(i) == problem.permeability[i]
\* problem_.boundaryTypes / dirichlet / neumann at a boundary intersection
BcType(i, k) == problem.bcType[<<i, k>>]
BcValue(i, k) == problem.bcValue[<<i, k>>]
\* unitOuterNormal * gravity
NormalGravity(i, k) == Faces(i)[k].normal * problem.gravity

\* spatialParameters().meanK of two cells: the harmonic mean
MeanK(Ki, Kj) == (2 * Ki * Kj) \div (Ki + Kj)

(***************************************************************************)
(* FVPressure1P::initializeMatrix                                          *)
(***************************************************************************)
\* the second loop: the diagonal index, then one index per neighbour
RECURSIVE RowIndices(_, _, _)
RowIndices(grid, i, k) ==
    IF k = 0 THEN {i}
    ELSE RowIndices(grid, i, k - 1)
         \cup (IF grid.faces[i][k - 1].neighbor
               THEN {grid.faces[i][k - 1].outside} ELSE {})

\* a pattern that lacks the diagonal index
InitializeMatrix_noDiagonal(grid) ==
    [i \in 0..(grid.n - 1) |->
        RowIndices(grid, i, Cardinality(DOMAIN grid.faces[i])) \ {i}]

InitializeMatrix(grid) ==
    [i \in 0..(grid.n - 1) |->
        RowIndices(grid, i, Cardinality(DOMAIN grid.faces[i]))]

ZeroMatrix(n) == [i \in 0..(n - 1) |-> [j \in 0..(n - 1) |-> 0]]
ZeroVector(n) == [i \in 0..(n - 1) |-> 0]
ZeroPotential(grid) ==
    [i \in 0..(grid.n - 1) |-> [k \in DOMAIN grid.faces[i] |-> 0]]

(***************************************************************************)
(* FVPressure1P::assemble: one element, one intersection                   *)
(***************************************************************************)
\* lines 293-304: the right-hand side entry starts as the source term
SourceTerm(i) == (Source(i) \div Density(i)) * problem.grid.volume[i]

\* lines 335-344: (meanK * unitOuterNormal) / viscosityI, normal component
Permeability(i, k) ==
    MeanK(IntrinsicPermeability(i), IntrinsicPermeability(Faces(i)[k].outside))
        \div Viscosity(i)

\* an upwinding without the tie: zero potential takes the neighbour's density
UpwindDensity_noTie(pot, densityI, densityJ) ==
    IF pot > 0 THEN densityI ELSE densityJ

\* lines 351, 366-368, 381-383: upwind density, the mean at zero potential
UpwindDensity(pot, densityI, densityJ) ==
    LET rhoMean == (densityI + densityJ) \div 2
        density == IF pot > 0 THEN densityI ELSE densityJ
    IN IF pot = 0 THEN rhoMean ELSE density

\* lines 357-377: the potential used by the upwinding of this pass; pot
\* holds the potentials stored by the passes before
FacePotential(pot, i, k) ==
    LET j == Faces(i)[k].outside
    IN IF first THEN 0
       ELSE (varPressure[i] - varPressure[j]) \div Faces(i)[k].dist
            + UpwindDensity(pot[i][k], Density(i), Density(j))
              * NormalGravity(i, k)

\* line 386
Entry(i, k) == (Permeability(i, k) \div Faces(i)[k].dist) * Faces(i)[k].faceArea

\* line 389
RightEntry(pot, i, k) ==
    UpwindDensity(FacePotential(pot, i, k), Density(i), Density(Faces(i)[k].outside))
        * (Permeability(i, k) * NormalGravity(i, k)) * Faces(i)[k].faceArea

\* lines 421-439: a Dirichlet boundary intersection
BoundaryPermeability(i) == IntrinsicPermeability(i) \div Viscosity(i)
\* a boundary transmissibility over the distance between two cell centres
BoundaryEntry_cellDistance(i, k) ==
    (BoundaryPermeability(i) \div (2 * Faces(i)[k].dist)) * Faces(i)[k].faceArea

BoundaryEntry(i, k) ==
    (BoundaryPermeability(i) \div Faces(i)[k].dist) * Faces(i)[k].faceArea
BoundaryRightEntry(i, k) ==
    Density(i) * (BoundaryPermeability(i) * NormalGravity(i, k)) * Faces(i)[k].faceArea

\* lines 450-453: a Neumann boundary intersection
NeumannFlux(i, k) == (BcValue(i, k) \div Density(i)) * Faces(i)[k].faceArea

FaceKind(i, k) ==
    IF Faces(i)[k].neighbor THEN "interior"
    ELSE IF Faces(i)[k].boundary THEN BcType(i, k)
    ELSE "none"

\* an element's scatter that also writes the neighbour's row (a vertex-centred
\* scatter)
InteriorMatrix_bothRows(A, i, k) ==
    LET j == Faces(i)[k].outside
    IN [A EXCEPT ![i][i] = @ + Entry(i, k), ![i][j] = -Entry(i, k),
                 ![j][i] = -Entry(i, k)]

\* lines 394-398: the matrix after an interior intersection
InteriorMatrix(A, i, k) ==
    LET j == Faces(i)[k].outside
    IN [A EXCEPT ![i][i] = @ + Entry(i, k), ![i][j] = -Entry(i, k)]

\* a Neumann branch that also adds the flux to the diagonal
NeumannMatrix_touchesDiagonal(A, i, k) ==
    [A EXCEPT ![i][i] = @ + NeumannFlux(i, k) + 1]

\* lines 448-454: the Neumann branch writes no matrix entry
NeumannMatrix(A, i, k) == A

\* a Dirichlet branch that replaces the row by an identity row
DirichletMatrix_identityRow(A, i, k) ==
    [A EXCEPT ![i] = [j \in DOMAIN @ |-> IF j = i THEN 1 ELSE 0]]

\* lines 441-442
DirichletMatrix(A, i, k) == [A EXCEPT ![i][i] = @ + BoundaryEntry(i, k)]

FaceMatrix(A, i, k) ==
    CASE FaceKind(i, k) = "interior"  -> InteriorMatrix(A, i, k)
      [] FaceKind(i, k) = "dirichlet" -> DirichletMatrix(A, i, k)
      [] FaceKind(i, k) = "neumann"   -> NeumannMatrix(A, i, k)
      [] OTHER -> A

FaceRhs(f, pot, i, k) ==
    CASE FaceKind(i, k) = "interior" ->
            [f EXCEPT ![i] = @ - RightEntry(pot, i, k)]
      [] FaceKind(i, k) = "dirichlet" ->
            [f EXCEPT ![i] = (@ + BoundaryEntry(i, k) * BcValue(i, k))
                             - BoundaryRightEntry(i, k)]
      [] FaceKind(i, k) = "neumann" ->
            [f EXCEPT ![i] = @ - NeumannFlux(i, k)]
      [] OTHER -> f

\* line 376: the potential is stored only after the first pass
FaceStoredPotential(pot, i, k) ==
    IF FaceKind(i, k) = "interior" /\ ~first
    THEN [pot EXCEPT ![i][k] = FacePotential(pot, i, k)]
    ELSE pot

\* the matrix entries an intersection writes
FaceWrites(i, k) ==
    CASE FaceKind(i, k) = "interior"  -> {<<i, i>>, <<i, Faces(i)[k].outside>>}
      [] FaceKind(i, k) = "dirichlet" -> {<<i, i>>}
      [] OTHER -> {}

OutsidePattern(writes) == \E w \in writes : w[2] \notin pattern[w[1]]

(***************************************************************************)
(* FVPressure1P::solve: the hard constraint                                *)
(***************************************************************************)
\* an override that sets the diagonal but keeps the rest of the row
HardMatrix_keepsRow(A) ==
    IF setPressHard_
    THEN [A EXCEPT ![idxPressHard_][idxPressHard_] = 1]
    ELSE A

\* lines 472-475
HardMatrix(A) ==
    IF setPressHard_
    THEN [A EXCEPT ![idxPressHard_] =
             [j \in DOMAIN @ |-> IF j = idxPressHard_ THEN 1 ELSE 0]]
    ELSE A

\* an override that leaves the right-hand side as assembled
HardRhs_asAssembled(f) == f

\* line 476
HardRhs(f) ==
    IF setPressHard_ THEN [f EXCEPT ![idxPressHard_] = pressHard_] ELSE f

NoHard == [set |-> FALSE, pressure |-> 0, globalIdx |-> 0]

\* an exception that is swallowed: the caller goes on to solve()
PcAfterThrow_swallowed == "solve"

\* lines 122-148: neither initialize() nor pressure() catches, the
\* exception leaves the call
PcAfterThrow == "idle"

(***************************************************************************)
(* FVPressure1P: actions                                                   *)
(***************************************************************************)
\* lines 276-277, the entry of assemble(first)
\* what a pass finds when it begins: an identity row left by the override
\* of an earlier solve(), the partial result of an aborted pass
DirtyKinds(A, aborted) ==
    (IF \E i \in DOMAIN A : A[i] = [j \in DOMAIN A[i] |-> IF j = i THEN 1 ELSE 0]
     THEN {"overridden"} ELSE {})
    \cup (IF aborted /\ \E i \in DOMAIN A : \E j \in DOMAIN A[i] : A[i][j] # 0
          THEN {"aborted"} ELSE {})

\* a pass that keeps what the matrix held
ClearedMatrix_kept(A) == A

\* line 276: A_ = 0 assigns zero to every entry
ClearedMatrix(A) == [i \in DOMAIN A |-> [j \in DOMAIN A[i] |-> 0]]

\* line 277: f_ = 0
ClearedVector(f) == [i \in DOMAIN f |-> 0]

assembleBegin(isFirst, twice) ==
    /\ A_' = ClearedMatrix(A_)
    /\ f_' = ClearedVector(f_)
    /\ dirtySeen' = dirtySeen \cup DirtyKinds(A_, threw)
    /\ first' = isFirst
    /\ again' = twice
    /\ done' = {}
    /\ cur' = -1
    /\ isIndex' = 0
    /\ pc' = "assemble"
    /\ threw' = FALSE
    /\ pot0' = varPotential
    /\ UNCHANGED <<problem, pattern, pressHard_, idxPressHard_, setPressHard_,
                   varPressure, varPotential, hardReq, offPattern>>

initialize(solveTwice) ==
    /\ UNCHANGED <<ctxVars, ctxHist, extAll>>
    /\ pc = "idle"
    /\ assembleBegin(TRUE, solveTwice)

pressure ==
    /\ UNCHANGED <<ctxVars, ctxHist, extAll>>
    /\ pc = "idle"
    /\ assembleBegin(FALSE, FALSE)

\* lines 282-304: the next element of the traversal; the grid fixes the
\* order, which the model leaves open
assembleElement(i) ==
    /\ UNCHANGED <<ctxVars, ctxHist, extAll>>
    /\ pc = "assemble"
    /\ cur = -1
    /\ i \notin done
    /\ problem.grid.traversal = "ascending" => \A j \in Cells \ done : i <= j
    /\ cur' = i
    /\ isIndex' = 0
    /\ f_' = [f_ EXCEPT ![i] = SourceTerm(i)]
    /\ UNCHANGED <<problem, pattern, A_, pressHard_, idxPressHard_, setPressHard_,
                   varPressure, varPotential, pc, first, again, done, fvHist>>

\* lines 308-456: one intersection of the current element
assembleFace ==
    /\ UNCHANGED <<ctxVars, ctxHist, extAll>>
    /\ pc = "assemble"
    /\ cur # -1
    /\ isIndex < NumFaces(cur)
    /\ A_' = FaceMatrix(A_, cur, isIndex)
    /\ f_' = FaceRhs(f_, varPotential, cur, isIndex)
    /\ varPotential' = FaceStoredPotential(varPotential, cur, isIndex)
    /\ offPattern' = (offPattern \/ OutsidePattern(FaceWrites(cur, isIndex)))
    /\ IF isIndex + 1 < NumFaces(cur)
       THEN /\ isIndex' = isIndex + 1
            /\ UNCHANGED <<cur, done, pc>>
       ELSE /\ isIndex' = 0
            /\ cur' = -1
            /\ done' = done \cup {cur}
            /\ pc' = IF done' = Cells THEN "solve" ELSE "assemble"
    /\ UNCHANGED <<problem, pattern, pressHard_, idxPressHard_, setPressHard_,
                   varPressure, first, again, threw, hardReq, pot0, dirtySeen>>

\* a problem callback or closure relation throws: before an element's first
\* write (density, viscosity, source) or at an intersection (boundaryTypes,
\* dirichlet, neumann, the neighbour's density)
assembleThrow ==
    /\ UNCHANGED <<ctxVars, ctxHist, extAll>>
    /\ pc = "assemble"
    /\ pc' = PcAfterThrow
    /\ threw' = TRUE
    /\ cur' = -1
    /\ isIndex' = 0
    /\ UNCHANGED <<problem, pattern, A_, f_, pressHard_, idxPressHard_,
                   setPressHard_, varPressure, varPotential, first, again, done,
                   hardReq, offPattern, pot0, dirtySeen>>

\* the pressure field the linear solver returns: rising against gravity
\* steeply enough to turn the potentials around
PressureFields == {[i \in Cells |-> 8 * i]}

\* lines 463-486
solve ==
    /\ UNCHANGED <<ctxVars, ctxHist, extAll>>
    /\ pc = "solve"
    /\ A_' = HardMatrix(A_)
    /\ f_' = HardRhs(f_)
    /\ offPattern' = (offPattern \/ (setPressHard_ /\
                         OutsidePattern({<<idxPressHard_, idxPressHard_>>})))
    /\ varPressure' \in PressureFields
    /\ pc' = "solved"
    /\ UNCHANGED <<problem, pattern, pressHard_, idxPressHard_, setPressHard_,
                   varPotential, first, again, done, cur, isIndex, threw, hardReq,
                   pot0, dirtySeen>>

\* lines 126-131 and 147: the second pass of initialize(true), or the return
afterSolve ==
    /\ UNCHANGED <<ctxVars, ctxHist, extAll>>
    /\ pc = "solved"
    /\ IF again
       THEN assembleBegin(FALSE, FALSE)
       ELSE /\ pc' = "idle"
            /\ UNCHANGED <<problem, pattern, A_, f_, pressHard_, idxPressHard_,
                           setPressHard_, varPressure, varPotential, first, again,
                           done, cur, isIndex, fvHist>>

setPressureHard(press, globalIdx) ==
    /\ UNCHANGED <<ctxVars, ctxHist, extAll>>
    /\ pc = "idle"
    /\ setPressHard_' = TRUE
    /\ pressHard_' = press
    /\ idxPressHard_' = globalIdx
    /\ hardReq' = [set |-> TRUE, pressure |-> press, globalIdx |-> globalIdx]
    /\ UNCHANGED <<problem, pattern, A_, f_, varPressure, varPotential, pc, first,
                   again, done, cur, isIndex, threw, offPattern, pot0, dirtySeen>>

unsetPressureHard(globalIdx) ==
    /\ UNCHANGED <<ctxVars, ctxHist, extAll>>
    /\ pc = "idle"
    /\ setPressHard_
    /\ setPressHard_' = FALSE
    /\ pressHard_' = 0
    /\ idxPressHard_' = 0
    /\ hardReq' = NoHard
    /\ UNCHANGED <<problem, pattern, A_, f_, varPressure, varPotential, pc, first,
                   again, done, cur, isIndex, threw, offPattern, pot0, dirtySeen>>

\* the values setPressureHard is called with
HardVals == {6}

\* the state after the constructor, for one problem
InitFVWith(prob) ==
    /\ problem = prob
    /\ pattern = InitializeMatrix(prob.grid)
    /\ A_ = ZeroMatrix(prob.grid.n)
    /\ f_ = ZeroVector(prob.grid.n)
    /\ pressHard_ = 0
    /\ idxPressHard_ = 0
    /\ setPressHard_ = FALSE
    /\ varPressure = ZeroVector(prob.grid.n)
    /\ varPotential = ZeroPotential(prob.grid)
    /\ pc = "idle"
    /\ first = FALSE
    /\ again = FALSE
    /\ done = {}
    /\ cur = -1
    /\ isIndex = 0
    /\ threw = FALSE
    /\ hardReq = NoHard
    /\ offPattern = FALSE
    /\ pot0 = ZeroPotential(prob.grid)
    /\ dirtySeen = {}

\* the passes themselves: assembly element by element, then the solver
NextPass ==
    \/ \E solveTwice \in BOOLEAN : initialize(solveTwice)
    \/ pressure
    \/ \E i \in Cells : assembleElement(i)
    \/ assembleFace
    \/ solve
    \/ afterSolve

NextFV == NextPass

NextHard ==
    \/ NextPass
    \/ \E press \in HardVals, globalIdx \in Cells : setPressureHard(press, globalIdx)
    \/ \E globalIdx \in Cells : unsetPressureHard(globalIdx)

NextAbort ==
    \/ NextPass
    \/ assembleThrow

NextRerun ==
    \/ NextPass
    \/ assembleThrow
    \/ \E press \in HardVals, globalIdx \in Cells : setPressureHard(press, globalIdx)
    \/ \E globalIdx \in Cells : unsetPressureHard(globalIdx)

(***************************************************************************)
(* The problems the specifications start from                              *)
(***************************************************************************)
BcFaces == BoundaryFaces(LineGrid(NumCells, "free"))
UniformOn(n, v) == [i \in 0..(n - 1) |-> v]

\* the fluid's state per cell: the same everywhere, or alternating
Fluids ==
    {[density |-> UniformOn(NumCells, 2), viscosity |-> UniformOn(NumCells, 1)],
     [density |-> [i \in 0..(NumCells - 1) |-> 2 + 2 * (i % 2)],
      viscosity |-> [i \in 0..(NumCells - 1) |-> 1 + (i % 2)]]}

\* every combination of boundary condition kinds, with either fluid
BoundaryProblems ==
    {[grid |-> LineGrid(NumCells, "free"),
      density |-> fl.density,
      viscosity |-> fl.viscosity,
      permeability |-> UniformOn(NumCells, 8),
      source |-> UniformOn(NumCells, 4),
      gravity |-> 1,
      bcType |-> bt,
      bcValue |-> [b \in BcFaces |-> 4]] :
        fl \in Fluids, bt \in [BcFaces -> {"dirichlet", "neumann"}]}

\* the problem that keeps the other component's variables in place
ParkedProblem ==
    [grid |-> LineGrid(1, "free"),
     density |-> UniformOn(1, 2),
     viscosity |-> UniformOn(1, 1),
     permeability |-> UniformOn(1, 8),
     source |-> UniformOn(1, 0),
     gravity |-> 0,
     bcType |-> [b \in BoundaryFaces(LineGrid(1, "free")) |-> "neumann"],
     bcValue |-> [b \in BoundaryFaces(LineGrid(1, "free")) |-> 0]]

FVParked == InitFVWith(ParkedProblem)

(***************************************************************************)
(* EcfvDiscretization::syncOverlap on a distributed grid                   *)
(*                                                                         *)
(* One element (one DOF) per rank in a row: rank r owns DOF r and keeps a  *)
(* copy of the DOFs of its two neighbours, an overlap copy of the lower    *)
(* one and a ghost copy of the higher one.                                 *)
(***************************************************************************)
Ranks == 0..(NumRanks - 1)
Dofs == Ranks
Owner(d) == d

\* the partition type of element d in the grid view of rank r
PartitionType(r, d) ==
    IF Owner(d) = r THEN "interior"
    ELSE IF d = r - 1 THEN "overlap"
    ELSE IF d = r + 1 THEN "ghost"
    ELSE "none"

LocalDofs(r) == {d \in Dofs : PartitionType(r, d) # "none"}
CopyDofs(r) == {d \in Dofs : PartitionType(r, d) \in {"overlap", "ghost"}}

\* Dune::InteriorBorder_All_Interface: from interior and border entities to
\* entities of every partition type
InteriorBorder_All_Interface ==
    [from |-> {"interior", "border"},
     to   |-> {"interior", "border", "overlap", "front", "ghost"}]

\* Dune::ForwardCommunication sends along the interface, BackwardCommunication
\* against it
Directed(iface, dir) ==
    IF dir = "forward" THEN iface ELSE [from |-> iface.to, to |-> iface.from]

\* the arguments syncOverlap() passes
SyncTimeIdx == 0
SyncInterface == InteriorBorder_All_Interface
SyncDirection_backward == "backward"
SyncDirection == "forward"

\* the DOFs whose data rank a sends to rank b
LinkDofs(a, b) ==
    LET way == Directed(SyncInterface, SyncDirection)
    IN {d \in Dofs : /\ a # b
                     /\ PartitionType(a, d) \in way.from
                     /\ PartitionType(b, d) \in way.to}

NoMsg == [d \in {} |-> 0]
Senders(r) == {a \in Ranks : LinkDofs(a, r) # {}}
Receivers(r) == {b \in Ranks : LinkDofs(r, b) # {}}

\* GridCommHandleGhostSync::gather: the message of rank a for rank b
Gather(sol, a, b) == [d \in LinkDofs(a, b) |-> sol[a][SyncTimeIdx][d]]

\* GridCommHandleGhostSync::scatter: the solution of rank r with every
\* received value written to its DOF
Scatter(sol, lnk, r) ==
    [sol EXCEPT ![r][SyncTimeIdx] =
        [d \in DOMAIN @ |->
            IF \E a \in Senders(r) : d \in LinkDofs(a, r)
            THEN lnk[CHOOSE a \in Senders(r) : d \in LinkDofs(a, r)][r][d]
            ELSE @[d]]]

\* syncOverlap() on rank r, first half: gridView().communicate packs and
\* sends the data of rank r
syncGather(r) ==
    /\ UNCHANGED <<ctxVars, ctxHist, fvAll, gridVars>>
    /\ syncPc[r] = "idle"
    /\ \A b \in Receivers(r) : link[r][b] = NoMsg
    /\ link' = [a \in Ranks |-> [b \in Ranks |->
                   IF a = r /\ b \in Receivers(r)
                   THEN Gather(solution, r, b) ELSE link[a][b]]]
    /\ syncPc' = [syncPc EXCEPT ![r] = "communicating"]
    /\ UNCHANGED <<solution, refreshed>>

\* syncOverlap() on rank r, second half: communicate blocks until the data
\* of every sender has arrived, unpacks it and returns
syncScatter(r) ==
    /\ UNCHANGED <<ctxVars, ctxHist, fvAll, gridVars>>
    /\ syncPc[r] = "communicating"
    /\ \A a \in Senders(r) : link[a][r] # NoMsg
    /\ solution' = Scatter(solution, link, r)
    /\ link' = [a \in Ranks |-> [b \in Ranks |->
                   IF b = r THEN NoMsg ELSE link[a][b]]]
    /\ syncPc' = [syncPc EXCEPT ![r] = "idle"]
    /\ refreshed' = (refreshed \/ \E d \in CopyDofs(r) :
                                     solution'[r][0][d] # solution[r][0][d])

\* between two exchanges a rank changes the current solution of its local
\* DOFs (a Newton update); the copies become stale
localUpdate(r, d, priVars) ==
    /\ UNCHANGED <<ctxVars, ctxHist, fvAll, gridVars>>
    /\ syncPc[r] = "idle"
    /\ d \in LocalDofs(r)
    /\ solution' = [solution EXCEPT ![r][0][d] = priVars]
    /\ UNCHANGED <<link, syncPc, refreshed>>

\* every rank starts with the same initial solution on both time levels
InitPar ==
    /\ solution = [r \in Ranks |-> [t \in TimeLevels |-> [d \in LocalDofs(r) |-> 0]]]
    /\ link = [a \in Ranks |-> [b \in Ranks |-> NoMsg]]
    /\ syncPc = [r \in Ranks |-> "idle"]
    /\ refreshed = FALSE

NextSync ==
    \/ \E r \in Ranks : syncGather(r)
    \/ \E r \in Ranks : syncScatter(r)
    \/ \E r \in Ranks, d \in Dofs, priVars \in PriVals : localUpdate(r, d, priVars)

(***************************************************************************)
(* EclAluGridManager::loadBalance and the grid view of an element context  *)
(***************************************************************************)
\* loadBalance(): the grid is redistributed, the data handle moves the
\* Cartesian indices along with the elements; every earlier grid view and
\* index is of the distribution before
loadBalance ==
    /\ UNCHANGED <<ctxVars, ctxHist, fvAll, parAll>>
    /\ distribution < MaxBalances
    /\ distribution' = distribution + 1
    /\ UNCHANGED <<gridView_, raised, moreVars>>

\* BoxElementContext(problem): a new context takes a copy of the current grid
\* view; the constructor initializes neither scvIdxSaved_ nor priVarsSaved_
\* nor scvfVarsEval_
construct ==
    /\ UNCHANGED <<fvAll, parAll>>
    /\ gridView_' = distribution
    /\ fvElemGeom_' = NoGeom
    /\ scvVars_' = EmptyBuf
    /\ scvfVars_' = EmptyBuf
    /\ scvIdxSaved_' \in (-1)..(MaxVertices - 1)
    /\ scvVarsSaved_' = DefaultVolVars
    /\ priVarsSaved_' \in PriVals
    /\ scvfVarsSaved_' = EmptyBuf
    /\ scvfVarsEval_' \in {"scvfVars_", "scvfVarsSaved_"}
    /\ UNCHANGED <<distribution, raised, moreVars>>

GridAtStart ==
    /\ distribution = 0
    /\ gridView_ = 0
    /\ raised = FALSE

(***************************************************************************)
(* OnePTwoCLocalResidual::computeFlux                                      *)
(*                                                                         *)
(* One face between the CVs i and j, seen along its normal, which points   *)
(* from i to j; the CVs are a unit distance apart.  upwindAlpha is counted *)
(* in units of 1/AlphaUnit, and so is the flux.                            *)
(***************************************************************************)
AlphaUnit == 2
NoFlux == [conti |-> 0, trans |-> 0, set |-> FALSE]

\* the faces computeFlux is called on
FaceInputs ==
    [pI : 0..2, pJ : 0..2,
     cI : {0, 2, 4}, cJ : {0, 2, 4},
     rhoI : {2, 4}, rhoJ : {2},
     muI : {1}, muJ : {1, 2},
     upwindAlpha : 0..AlphaUnit,
     tie : {"i", "j"},
     K : {1}, porousDiffCoeff : {1}, dispersion : {1}]

\* curVolVars_(idx)
curVolVars_(in, idx) ==
    IF idx = "i"
    THEN [density |-> in.rhoI, viscosity |-> in.muI, concentration |-> in.cI]
    ELSE [density |-> in.rhoJ, viscosity |-> in.muJ, concentration |-> in.cJ]

\* FluxVariables: the gradients at the face, along the normal from i to j
PotentialGradNormal(in) == in.pJ - in.pI
ConcentrationGradNormal(in) == in.cJ - in.cI
\* FluxVariables::upstreamIdx / downstreamIdx: the CV the flow comes from,
\* the CV it goes to; at zero flux either
upstreamIdx(in, normalFlux) ==
    IF normalFlux > 0 THEN "i" ELSE IF normalFlux < 0 THEN "j" ELSE in.tie
downstreamIdx(in, normalFlux) ==
    IF upstreamIdx(in, normalFlux) = "i" THEN "j" ELSE "i"

\* lines 131-134
NormalFlux(in) == -(in.K * PotentialGradNormal(in))

\* lines 139-143, in units of 1/AlphaUnit
MassFlux(in) ==
    LET up == curVolVars_(in, upstreamIdx(in, NormalFlux(in)))
        dn == curVolVars_(in, downstreamIdx(in, NormalFlux(in)))
    IN NormalFlux(in)
         * (in.upwindAlpha * (up.density \div up.viscosity)
            + (AlphaUnit - in.upwindAlpha) * (dn.density \div dn.viscosity))

\* lines 146-150
AdvectiveFlux(in) ==
    LET up == curVolVars_(in, upstreamIdx(in, NormalFlux(in)))
        dn == curVolVars_(in, downstreamIdx(in, NormalFlux(in)))
    IN NormalFlux(in)
         * (in.upwindAlpha * (up.concentration \div up.viscosity)
            + (AlphaUnit - in.upwindAlpha) * (dn.concentration \div dn.viscosity))

\* line 153
MeanConcentration(in) == (in.cI + in.cJ) \div 2

\* lines 154-156
DiffusiveFlux(in) ==
    AlphaUnit * (MeanConcentration(in) * in.porousDiffCoeff
                 * ConcentrationGradNormal(in))

\* lines 159-162
DispersiveFlux(in) ==
    AlphaUnit * (MeanConcentration(in)
                 * (in.dispersion * ConcentrationGradNormal(in)))

\* line 166: flux *= -1
FinalSign == -1

ComputeFlux(in) ==
    [conti |-> FinalSign * MassFlux(in),
     trans |-> FinalSign * (AdvectiveFlux(in) + DiffusiveFlux(in)
                            + DispersiveFlux(in)),
     set |-> TRUE]

computeFlux ==
    /\ UNCHANGED <<ctxVars, ctxHist, fvAll, parAll>>
    /\ UNCHANGED <<distribution, gridView_, raised, restartVars, ownVars>>
    /\ flux' = ComputeFlux(faceIn)
    /\ UNCHANGED faceIn

ParkedFace ==
    [pI |-> 0, pJ |-> 0, cI |-> 0, cJ |-> 0, rhoI |-> 2, rhoJ |-> 2,
     muI |-> 1, muJ |-> 1, upwindAlpha |-> AlphaUnit, tie |-> "i",
     K |-> 1, porousDiffCoeff |-> 1, dispersion |-> 1]

ResParked == faceIn = ParkedFace /\ flux = NoFlux

(***************************************************************************)
(* EcfvDiscretization::serialize / deserialize                             *)
(***************************************************************************)
NoFile == [d \in {} |-> 0]

\* Restarter::serializeEntities<0>: for every element of the grid view the
\* primary variables of its DOF in the current solution
SerializeEntities(sol, r) == [d \in LocalDofs(r) |-> sol[0][d]]

\* Restarter::deserializeEntities<0>: the primary variables of every element
\* are read into the current solution
DeserializeEntities(sol, file) ==
    [sol EXCEPT ![0] = [d \in DOMAIN @ |-> file[d]]]

\* a restart that keeps the previous time level as it was
PreviousSolution_kept(sol) == sol[1]

\* line 214: solution(1) = solution(0)
PreviousSolution(sol) == sol[0]

Deserialize(sol, file) ==
    [DeserializeEntities(sol, file) EXCEPT
        ![1] = PreviousSolution(DeserializeEntities(sol, file))]

serialize(r) ==
    /\ UNCHANGED <<ctxVars, ctxHist, fvAll, parAll>>
    /\ UNCHANGED <<distribution, gridView_, raised, resVars, ownVars>>
    /\ restartFile' = [restartFile EXCEPT ![r] = SerializeEntities(solution[r], r)]
    /\ UNCHANGED resumed

deserialize(r) ==
    /\ UNCHANGED <<ctxVars, ctxHist, fvAll>>
    /\ UNCHANGED <<distribution, gridView_, raised, resVars, ownVars>>
    /\ restartFile[r] # NoFile
    /\ solution' = [solution EXCEPT ![r] = Deserialize(@, restartFile[r])]
    /\ resumed' = [resumed EXCEPT ![r] = TRUE]
    /\ UNCHANGED <<link, syncPc, refreshed, restartFile>>

\* a time step on rank r: the current solution becomes the previous one and
\* the primary variables of DOF d change
timeStep(r, d, priVars) ==
    /\ UNCHANGED <<ctxVars, ctxHist, fvAll>>
    /\ UNCHANGED <<distribution, gridView_, raised, resVars, ownVars>>
    /\ d \in LocalDofs(r)
    /\ solution' = [solution EXCEPT ![r] =
                       [t \in DOMAIN @ |->
                           IF t = 0 THEN [@[0] EXCEPT ![d] = priVars]
                           ELSE @[t - 1]]]
    /\ resumed' = [resumed EXCEPT ![r] = FALSE]
    /\ UNCHANGED <<link, syncPc, refreshed, restartFile>>

RestartParked ==
    /\ restartFile = [r \in Ranks |-> NoFile]
    /\ resumed = [r \in Ranks |-> FALSE]

(***************************************************************************)
(* EclAluGridManager: the grids and the index mapper it owns               *)
(***************************************************************************)
Null == 0
\* the objects createGrids_ allocates
EquilGridObj == 1
GridObj == 2
MapperObj == 3
Objects == {EquilGridObj, GridObj, MapperObj}

\* delete p: a null pointer is left alone
Delete(hp, p) == IF p = Null THEN hp ELSE [hp EXCEPT ![p] = @ + 1]

\* a release that leaves the pointer as it was
ReleasedPointer_dangling(p) == p

\* line 123: equilGrid_ = 0
ReleasedPointer(p) == Null

\* lines 151-183: the state after the constructor has run createGrids_
Created ==
    /\ equilGrid_ = EquilGridObj
    /\ grid_ = GridObj
    /\ cartesianIndexMapper_ = MapperObj
    /\ heap = [o \in Objects |-> 0]
    /\ phase = "created"
    /\ releases = 0

releaseEquilGrid ==
    /\ UNCHANGED <<ctxVars, ctxHist, fvAll, parAll>>
    /\ UNCHANGED <<distribution, gridView_, raised, resVars, restartVars>>
    /\ phase = "created"
    /\ releases < MaxReleases
    /\ heap' = Delete(heap, equilGrid_)
    /\ equilGrid_' = ReleasedPointer(equilGrid_)
    /\ releases' = releases + 1
    /\ UNCHANGED <<grid_, cartesianIndexMapper_, phase>>

\* ~EclAluGridManager
destroy ==
    /\ UNCHANGED <<ctxVars, ctxHist, fvAll, parAll>>
    /\ UNCHANGED <<distribution, gridView_, raised, resVars, restartVars>>
    /\ phase = "created"
    /\ heap' = Delete(Delete(Delete(heap, cartesianIndexMapper_), grid_),
                      equilGrid_)
    /\ phase' = "destroyed"
    /\ UNCHANGED <<grid_, equilGrid_, cartesianIndexMapper_, releases>>

InitGrid == GridAtStart /\ ResParked /\ RestartParked /\ Created

ExtParked == InitPar /\ InitGrid

(***************************************************************************)
(* SpecGeom: binding elements and the bulk updates                         *)
(***************************************************************************)
InitCtx == InitCtxVars /\ InitHist /\ FVParked /\ ExtParked

NextGeom ==
    \/ \E elem \in Elements : updateFVElemGeom(elem) /\ UNCHANGED ctxHist
    \/ \E elem \in Elements : updateAll(elem) /\ UNCHANGED ctxHist
    \/ updateAllScvVars /\ UNCHANGED ctxHist
    \/ \E timeIdx \in TimeLevels : updateScvVarsLevel(timeIdx) /\ UNCHANGED ctxHist
    \/ updateAllScvfVars /\ UNCHANGED ctxHist

SpecGeom == InitCtx /\ [][NextGeom]_vars

(***************************************************************************)
(* SpecSave: save, perturb, restore of one sub-control volume              *)
(***************************************************************************)
NextSave ==
    \/ \E elem \in Elements :
          updateAll(elem) /\ ProtoRebind /\ UNCHANGED <<pertHist, evalHist>>
    \/ \E priVars \in PriVals, scvIdx \in ScvIndices, timeIdx \in TimeLevels :
          /\ updateScvVars(priVars, scvIdx, timeIdx)
          /\ ProtoUpdate(Touched({scvIdx}, timeIdx))
          /\ UNCHANGED <<pertHist, evalHist>>
    \/ \E scvIdx \in ScvIndices :
          saveScvVars(scvIdx) /\ ProtoSave(scvIdx) /\ UNCHANGED <<pertHist, evalHist>>
    \/ \E scvIdx \in ScvIndices :
          restoreScvVars(scvIdx) /\ ProtoRestore(scvIdx) /\ UNCHANGED <<pertHist, evalHist>>

SpecSave == InitCtx /\ [][NextSave]_vars

(***************************************************************************)
(* SpecPert: outstanding saves and the baseline of every CV                *)
(***************************************************************************)
NextPert ==
    \/ \E elem \in Elements :
          updateAll(elem) /\ PertRebind /\ UNCHANGED <<protoHist, evalHist>>
    \/ \E priVars \in PriVals, scvIdx \in ScvIndices, timeIdx \in {0} :
          /\ updateScvVars(priVars, scvIdx, timeIdx)
          /\ PertUpdate(Touched({scvIdx}, timeIdx))
          /\ UNCHANGED <<protoHist, evalHist>>
    \/ \E scvIdx \in ScvIndices :
          saveScvVars(scvIdx) /\ PertSave(scvIdx) /\ UNCHANGED <<protoHist, evalHist>>
    \/ \E scvIdx \in ScvIndices :
          restoreScvVars(scvIdx) /\ PertRestore(scvIdx) /\ UNCHANGED <<protoHist, evalHist>>

SpecPert == InitCtx /\ [][NextPert]_vars

(***************************************************************************)
(* SpecFV: FVPressure1P on problems with every kind of boundary condition  *)
(***************************************************************************)
\* the element context, not part of this specification, stays as it is
CtxParked ==
    /\ fvElemGeom_ = NoGeom
    /\ scvVars_ = EmptyBuf
    /\ scvfVars_ = EmptyBuf
    /\ scvIdxSaved_ = -1
    /\ scvVarsSaved_ = DefaultVolVars
    /\ priVarsSaved_ = 0
    /\ scvfVarsSaved_ = EmptyBuf
    /\ scvfVarsEval_ = "scvfVars_"
    /\ InitHist

InitFV == CtxParked /\ ExtParked /\ \E prob \in BoundaryProblems : InitFVWith(prob)

SpecFV == InitFV /\ [][NextFV]_vars

(***************************************************************************)
(* SpecHard: passes interleaved with setPressureHard / unsetPressureHard   *)
(***************************************************************************)
SpecHard == InitFV /\ [][NextHard]_vars

(***************************************************************************)
(* SpecAbort: passes in which a callback may throw                         *)
(***************************************************************************)
\* the same problems on a grid that is traversed by ascending index
AscendingProblems ==
    {[prob EXCEPT !.grid = LineGrid(NumCells, "ascending")] : prob \in BoundaryProblems}

InitAbort == CtxParked /\ ExtParked /\ \E prob \in AscendingProblems : InitFVWith(prob)

SpecAbort == InitAbort /\ [][NextAbort]_vars

(***************************************************************************)
(* SpecRerun: passes after an abort and after a hard-constraint override   *)
(***************************************************************************)
\* the uniform fluid with a Dirichlet pressure on the lower end and a
\* Neumann flux on the upper end
MixedProblems ==
    {prob \in AscendingProblems :
        /\ prob.viscosity = UniformOn(NumCells, 1)
        /\ \A b \in BcFaces :
              prob.bcType[b] = (IF b[1] = 0 THEN "dirichlet" ELSE "neumann")}

InitRerun == CtxParked /\ ExtParked /\ \E prob \in MixedProblems : InitFVWith(prob)

SpecRerun == InitRerun /\ [][NextRerun]_vars

(***************************************************************************)
(* SpecTopo: element contexts on a grid that is redistributed              *)
(***************************************************************************)
NextTopo ==
    \/ loadBalance
    \/ construct /\ UNCHANGED ctxHist
    \/ \E elem \in Elements : updateFVElemGeom(elem) /\ UNCHANGED ctxHist
    \/ \E elem \in Elements : updateAll(elem) /\ UNCHANGED ctxHist

SpecTopo == InitCtx /\ [][NextTopo]_vars

(***************************************************************************)
(* SpecClosed: zero-flux boundaries everywhere, no source, no gravity      *)
(***************************************************************************)
ClosedProblems ==
    {[grid |-> LineGrid(NumCells, "free"),
      density |-> fl.density,
      viscosity |-> fl.viscosity,
      permeability |-> UniformOn(NumCells, 8),
      source |-> UniformOn(NumCells, 0),
      gravity |-> 0,
      bcType |-> [b \in BcFaces |-> "neumann"],
      bcValue |-> [b \in BcFaces |-> 0]] : fl \in Fluids}

InitClosed == CtxParked /\ ExtParked /\ \E prob \in ClosedProblems : InitFVWith(prob)

SpecClosed == InitClosed /\ [][NextHard]_vars

(***************************************************************************)
(* SpecScenario: steady diffusion between two Dirichlet sides of a square  *)
(*                                                                         *)
(* Scaled units: a cell is 2 long, the permeability 2 stands for 1, the    *)
(* pressure 6 stands for 1.                                                *)
(***************************************************************************)
ScenarioSize == 3

\* a square of nx * ny cells, cell x + nx * y, with the intersections 0, 1
\* (towards lower, higher x) and 2, 3 (towards lower, higher y)
QuadFaces(nx, ny) ==
    [i \in 0..(nx * ny - 1) |->
        [k \in 0..3 |->
            LET x == i % nx
                y == i \div nx
                xx == IF k = 0 THEN x - 1 ELSE IF k = 1 THEN x + 1 ELSE x
                yy == IF k = 2 THEN y - 1 ELSE IF k = 3 THEN y + 1 ELSE y
                inside == xx \in 0..(nx - 1) /\ yy \in 0..(ny - 1)
            IN [neighbor |-> inside,
                boundary |-> ~inside,
                outside  |-> IF inside THEN xx + nx * yy ELSE -1,
                normal   |-> IF k = 0 THEN -1 ELSE IF k = 1 THEN 1 ELSE 0,
                dist     |-> IF inside THEN 2 ELSE 1,
                faceArea |-> 2]]]

QuadGrid(nx, ny, traversal) ==
    [n |-> nx * ny, faces |-> QuadFaces(nx, ny),
     volume |-> [i \in 0..(nx * ny - 1) |-> 4], traversal |-> traversal]

QuadBoundaryFaces(grid) ==
    {b \in (0..(grid.n - 1)) \X (0..3) : grid.faces[b[1]][b[2]].boundary}

\* Dirichlet 6 on the side of lower x, Dirichlet 0 on the side of higher x,
\* zero-flux Neumann on the other two sides, no source, no gravity
ScenarioProblem ==
    LET grid == QuadGrid(ScenarioSize, ScenarioSize, "free")
    IN [grid |-> grid,
        density |-> UniformOn(grid.n, 1),
        viscosity |-> UniformOn(grid.n, 1),
        permeability |-> UniformOn(grid.n, 2),
        source |-> UniformOn(grid.n, 0),
        gravity |-> 0,
        bcType |-> [b \in QuadBoundaryFaces(grid) |->
                       IF b[2] \in {0, 1} THEN "dirichlet" ELSE "neumann"],
        bcValue |-> [b \in QuadBoundaryFaces(grid) |-> IF b[2] = 0 THEN 6 ELSE 0]]

InitScenario == CtxParked /\ ExtParked /\ InitFVWith(ScenarioProblem)

SpecScenario == InitScenario /\ [][NextPass]_vars

(***************************************************************************)
(* SpecSync: the ranks exchange and update their solutions                 *)
(***************************************************************************)
InitSync == CtxParked /\ FVParked /\ InitPar /\ InitGrid

SpecSync == InitSync /\ [][NextSync]_vars

(***************************************************************************)
(* Claims about the element context                                        *)
(***************************************************************************)
SnapshotOf(cv) == Level0(scvVars_[cv])

\* C1: saveScvVars(cv), then any number of updateScvVars perturbations of
\* cv, then restoreScvVars(cv) leaves primaryVars(cv, 0) and volVars(cv, 0)
\* identical to their values immediately before the save.
C1_SaveRestoreIdentity ==
    proto.st = "restored" =>
        SnapshotOf(proto.cv) = [priVars |-> proto.priVars, volVars |-> proto.volVars]

\* a CV was saved, perturbed to different values and restored
C1_Witness == proto.st = "restored" /\ proto.pert

EveryCvAtBaseline ==
    \A cv \in 0..(numScv - 1) : SnapshotOf(cv) = base[cv]

\* C2 as stated: whenever every save has been matched by a restore of the
\* same CV, nested saves included, every CV is back at its baseline.
C2_Original == (bound /\ TotalOpen = 0) => EveryCvAtBaseline

\* C2 amended: provided no save was issued while another save was
\* outstanding (at most one CV is saved at a time), whenever every save has
\* been matched by a restore of the same CV, every CV's time-level-0
\* primary variables and VolumeVariables equal their baseline.
C2_OneSavedAtATime ==
    (bound /\ TotalOpen = 0 /\ ~nested) => EveryCvAtBaseline

\* a perturbation was undone by its restore and no save was nested
C2_Witness == bound /\ TotalOpen = 0 /\ ~nested /\ undone

\* C6: across updateFVElemGeom calls the sizes of the CV buffer and of the
\* face buffer never decrease, and binding an element with no more vertices
\* and edges than the buffers hold resizes neither buffer.
C6_GrowOnlyBuffers ==
    [][/\ Size(scvVars_') >= Size(scvVars_)
       /\ Size(scvfVars_') >= Size(scvfVars_)
       /\ (/\ fvElemGeom_'.numVertices <= Size(scvVars_)
           /\ fvElemGeom_'.numEdges <= Size(scvfVars_))
          => (/\ Size(scvVars_') = Size(scvVars_)
              /\ Size(scvfVars_') = Size(scvfVars_))]_vars

\* an element smaller than both buffers is bound
C6_Witness ==
    bound /\ numScv < Size(scvVars_) /\ numScvf < Size(scvfVars_)

(***************************************************************************)
(* Claims about FVPressure1P                                               *)
(***************************************************************************)
InteriorFaces(i) == {k \in DOMAIN Faces(i) : FaceKind(i, k) = "interior"}
DirichletFaces(i) == {k \in DOMAIN Faces(i) : FaceKind(i, k) = "dirichlet"}
NeumannFaces(i) == {k \in DOMAIN Faces(i) : FaceKind(i, k) = "neumann"}
FaceNeighbours(i) == {Faces(i)[k].outside : k \in InteriorFaces(i)}
UnitRow(i) == [j \in Cells |-> IF j = i THEN 1 ELSE 0]

RECURSIVE SumOver(_, _)
SumOver(f, S) ==
    IF S = {} THEN 0
    ELSE LET x == CHOOSE x \in S : TRUE
         IN f[x] + SumOver(f, S \ {x})

\* the row of element i that one pass yields, as sums over the element's
\* intersections that name no order of elements
ExpectedRow(i) ==
    [j \in Cells |->
        IF j = i
        THEN SumOver([k \in DOMAIN Faces(i) |-> Entry(i, k)], InteriorFaces(i))
             + SumOver([k \in DOMAIN Faces(i) |-> BoundaryEntry(i, k)],
                       DirichletFaces(i))
        ELSE -SumOver([k \in DOMAIN Faces(i) |-> Entry(i, k)],
                      {k \in InteriorFaces(i) : Faces(i)[k].outside = j})]

ExpectedRhs(i) ==
    ((SourceTerm(i)
      - SumOver([k \in DOMAIN Faces(i) |-> RightEntry(pot0, i, k)], InteriorFaces(i)))
     + SumOver([k \in DOMAIN Faces(i) |->
                   BoundaryEntry(i, k) * BcValue(i, k) - BoundaryRightEntry(i, k)],
               DirichletFaces(i)))
    - SumOver([k \in DOMAIN Faces(i) |-> NeumannFlux(i, k)], NeumannFaces(i))

ExpectedPotential(i) ==
    [k \in DOMAIN Faces(i) |->
        IF k \in InteriorFaces(i) /\ ~first
        THEN FacePotential(pot0, i, k) ELSE pot0[i][k]]

HardCell(i) == setPressHard_ /\ i = idxPressHard_

\* C3 as stated: after assembly the row of every cell with a Dirichlet
\* boundary face is the identity row and its right-hand side is the
\* prescribed value.
C3_Original ==
    pc = "solved" =>
        \A i \in Cells :
            DirichletFaces(i) # {} =>
                /\ A_[i] = UnitRow(i)
                /\ \E k \in DirichletFaces(i) : f_[i] = BcValue(i, k)

\* C3 amended: only the cell fixed by setPressureHard gets an identity row
\* with the prescribed value as right-hand side, in solve(); a cell with a
\* Dirichlet boundary face keeps its off-diagonal entries: after assembly its
\* diagonal is the sum of its interior and boundary transmissibilities and
\* its right-hand side is the source and gravity terms plus the boundary
\* transmissibility times the prescribed pressure.
C3_DirichletIsWeak ==
    /\ pc = "solve" =>
          \A i \in Cells :
              DirichletFaces(i) # {} =>
                  A_[i] = ExpectedRow(i) /\ f_[i] = ExpectedRhs(i)
    /\ pc = "solved" =>
          \A i \in Cells :
              /\ HardCell(i) => A_[i] = UnitRow(i) /\ f_[i] = pressHard_
              /\ (DirichletFaces(i) # {} /\ ~HardCell(i)) => A_[i] = ExpectedRow(i)

\* a system was solved with a hard constraint on one cell while another
\* cell, with a Dirichlet face, kept an off-diagonal entry
C3_Witness ==
    /\ pc = "solved"
    /\ setPressHard_
    /\ \E i \in Cells :
          /\ DirichletFaces(i) # {}
          /\ ~HardCell(i)
          /\ \E j \in Cells \ {i} : A_[i][j] # 0

\* C4: while a setPressureHard(v, d) is in force, every solve() replaces
\* row d by the identity row and right-hand side entry d by v and changes
\* nothing else; while none is in force (never set, or unset since), solve()
\* changes neither the matrix nor the right-hand side.
C4_HardOverrideUntilUnset ==
    [][pc = "solve" =>
          IF hardReq.set
          THEN /\ A_' = [A_ EXCEPT ![hardReq.globalIdx] = UnitRow(hardReq.globalIdx)]
               /\ f_' = [f_ EXCEPT ![hardReq.globalIdx] = hardReq.pressure]
          ELSE A_' = A_ /\ f_' = f_]_vars

\* the second solve of an initialize(true) has overridden a row in which
\* assemble() had accumulated off-diagonal entries
C4_Witness ==
    /\ pc = "solved"
    /\ hardReq.set
    /\ ~first
    /\ A_[hardReq.globalIdx] = UnitRow(hardReq.globalIdx)
    /\ f_[hardReq.globalIdx] = hardReq.pressure
    /\ ExpectedRow(hardReq.globalIdx) # UnitRow(hardReq.globalIdx)

\* the intersection of the neighbour that faces back to cell i
ReverseFaces(i, k) ==
    {kk \in InteriorFaces(Faces(i)[k].outside) :
        Faces(Faces(i)[k].outside)[kk].outside = i}

\* C5: for every interior face the transmissibility written into row i for
\* neighbour j equals the one written into row j for neighbour i, and the
\* gravity terms of the two sides are the negatives of each other.
C5_FluxSymmetry ==
    pc = "solve" =>
        \A i \in Cells : \A k \in InteriorFaces(i) : \A kk \in ReverseFaces(i, k) :
            LET j == Faces(i)[k].outside
            IN /\ A_[i][j] = A_[j][i]
               /\ RightEntry(pot0, i, k) = -RightEntry(pot0, j, kk)

\* C7: a step of assemble() for element i changes only row i of the matrix,
\* entry i of the right-hand side and the potentials of element i, and in
\* whatever order the elements were visited the assembled system is the
\* same: the sums over each element's own intersections.
C7_ElementOwnsItsRow ==
    /\ [][pc = "assemble" =>
            \A r \in Cells \ {IF cur # -1 THEN cur ELSE cur'} :
                /\ A_'[r] = A_[r]
                /\ f_'[r] = f_[r]
                /\ varPotential'[r] = varPotential[r]]_vars
    /\ [](pc = "solve" =>
            \A i \in Cells :
                /\ A_[i] = ExpectedRow(i)
                /\ f_[i] = ExpectedRhs(i)
                /\ varPotential[i] = ExpectedPotential(i))

\* an element is being assembled after elements of higher index only, in a
\* pass that stores potentials
C7_Witness ==
    /\ pc = "assemble"
    /\ ~first
    /\ cur # -1
    /\ isIndex > 0
    /\ done # {}
    /\ \A d \in done : d > cur

\* C8: the step for a Neumann boundary intersection of element i changes no
\* matrix entry and no stored potential, and subtracts from f_[i] alone the
\* prescribed flux divided by the density of element i times the face area.
C8_NeumannOnlyRhs ==
    [][(pc = "assemble" /\ cur # -1 /\ isIndex \in NeumannFaces(cur)) =>
          /\ A_' = A_
          /\ varPotential' = varPotential
          /\ f_' = [f_ EXCEPT ![cur] =
                       @ - (problem.bcValue[<<cur, isIndex>>] \div problem.density[cur])
                           * problem.grid.faces[cur][isIndex].faceArea]]_vars

\* a nonzero Neumann flux has just been subtracted from the source term
C8_Witness ==
    /\ pc = "assemble"
    /\ cur # -1
    /\ isIndex = 1
    /\ 0 \in NeumannFaces(cur)
    /\ NeumannFlux(cur, 0) # 0
    /\ f_[cur] = SourceTerm(cur) - NeumannFlux(cur, 0)
    /\ A_[cur] = [j \in Cells |-> 0]

\* C9: once a callback has thrown, the pass does not reach solve(): the
\* solver is only ever handed a system that assemble() completed over all
\* elements, and the call has returned to the caller.
C9_AbortBeforeSolve ==
    /\ pc \in {"solve", "solved"} => (done = Cells /\ ~threw)
    /\ threw => pc = "idle"

\* a callback threw after some, but not all, elements had been assembled
C9_Witness ==
    /\ threw
    /\ pc = "idle"
    /\ done # {}
    /\ done # Cells
    /\ \E i \in done : A_[i][i] # 0

\* C10: row i of the sparsity pattern is i itself plus the face neighbours
\* of cell i, no write of assemble() or of the override in solve() fell
\* outside it, and no entry outside it is nonzero.
C10_PatternIsAdjacency ==
    /\ \A i \in Cells : pattern[i] = {i} \cup FaceNeighbours(i)
    /\ ~offPattern
    /\ \A i, j \in Cells : A_[i][j] # 0 => j \in pattern[i]

\* the override has been applied on a grid where some cells are not
\* neighbours
C10_Witness ==
    /\ pc = "solved"
    /\ setPressHard_
    /\ \E i \in Cells : pattern[i] # Cells
    /\ \E i, j \in Cells : i # j /\ A_[i][j] # 0

(***************************************************************************)
(* Claims about EcfvDiscretization                                         *)
(***************************************************************************)
\* C11: when syncOverlap() returns on a rank, the time-level-0 primary
\* variables of each of its ghost and overlap DOFs equal the value the owner
\* of the DOF held when it entered its own syncOverlap(), which is what the
\* owner sent; syncOverlap() changes no primary variables of an interior
\* DOF, none of another time level and none of another rank.
C11_GhostsFollowOwner ==
    [][\A r \in Ranks :
          /\ (syncPc[r] = "idle" /\ syncPc'[r] = "communicating") =>
                /\ solution' = solution
                /\ \A b \in Ranks : \A d \in CopyDofs(b) :
                      Owner(d) = r =>
                          /\ d \in DOMAIN link'[r][b]
                          /\ link'[r][b][d] = solution[r][0][d]
          /\ (syncPc[r] = "communicating" /\ syncPc'[r] = "idle") =>
                /\ \A d \in CopyDofs(r) :
                      /\ d \in DOMAIN link[Owner(d)][r]
                      /\ solution'[r][0][d] = link[Owner(d)][r][d]
                /\ \A d \in LocalDofs(r) \ CopyDofs(r) :
                      solution'[r][0][d] = solution[r][0][d]
                /\ \A t \in TimeLevels \ {0} : solution'[r][t] = solution[r][t]
                /\ \A q \in Ranks \ {r} : solution'[q] = solution[q]]_vars

\* every rank has returned from an exchange that changed a stale copy, and
\* every copy equals the value its owner holds
C11_Witness ==
    /\ refreshed
    /\ \A r \in Ranks : syncPc[r] = "idle"
    /\ \A r \in Ranks : \A d \in CopyDofs(r) :
          solution[r][0][d] = solution[Owner(d)][0][d]
    /\ \E r \in Ranks : \E d \in CopyDofs(r) : solution[r][0][d] # 0

\* C12: every pass starts from a zeroed system: while assemble() runs, the
\* rows and right-hand-side entries of the elements it has not reached yet
\* are zero, and when it has finished the system is the sum of this pass's
\* contributions, whatever the matrix and right-hand side held before (an
\* identity row of an earlier override, the partial result of an aborted
\* pass).
C12_PassStartsFromZero ==
    /\ pc = "assemble" =>
          \A i \in Cells \ (done \cup {cur}) :
              /\ A_[i] = [j \in Cells |-> 0]
              /\ f_[i] = 0
    /\ pc = "solve" =>
          \A i \in Cells : A_[i] = ExpectedRow(i) /\ f_[i] = ExpectedRhs(i)

\* a pass has finished after passes had found an identity row and the
\* remains of an aborted pass in the matrix
C12_Witness ==
    /\ pc = "solve"
    /\ dirtySeen = {"overridden", "aborted"}

\* the linear profile p(x) = 1 - x/3 at the centre of cell j, in the scaled
\* units: 6 - x with x = 1, 3, 5; it does not depend on the row of cells
LinearProfile(j) == 6 - (2 * (j % ScenarioSize) + 1)

\* C13: on the 3x3 scenario the linear profile satisfies every row of the
\* assembled system A p = f.
C13_LinearProfileSolves ==
    pc = "solve" =>
        \A i \in Cells :
            SumOver([j \in Cells |-> A_[i][j] * LinearProfile(j)], Cells) = f_[i]

\* the scenario has been assembled in a pass that follows a solve, with a
\* nonzero right-hand side on the Dirichlet side
C13_Witness ==
    /\ pc = "solve"
    /\ ~first
    /\ problem = ScenarioProblem
    /\ \E i \in Cells : f_[i] # 0
    /\ \E i \in Cells : f_[i] = 0

\* the determinant of the rows and columns of M listed in rows and cols, by
\* expansion along the first row
WithoutNth(seq, c) ==
    [k \in 1..(Len(seq) - 1) |-> IF k < c THEN seq[k] ELSE seq[k + 1]]

RECURSIVE Det(_, _, _)
Det(M, rows, cols) ==
    IF Len(rows) = 0 THEN 1
    ELSE SumOver([c \in 1..Len(cols) |->
                     (IF c % 2 = 1 THEN 1 ELSE -1)
                     * M[rows[1]][cols[c]]
                     * Det(M, Tail(rows), WithoutNth(cols, c))],
                 1..Len(cols))

CellSeq == [k \in 1..Cardinality(Cells) |-> k - 1]
Satisfies(p) ==
    \A i \in Cells : SumOver([j \in Cells |-> A_[i][j] * p[j]], Cells) = f_[i]

C15_StaleContextRaises ==
    [][(gridView_ # distribution /\ gridView_' = gridView_
        /\ distribution' = distribution) =>
          \/ raised'
          \/ /\ fvElemGeom_' = fvElemGeom_
             /\ scvVars_' = scvVars_
             /\ scvfVars_' = scvfVars_]_vars

(***************************************************************************)
(* BoxElementContext: the evaluation point of the flux variables           *)
(***************************************************************************)
\* -- history of the flux evaluation point: open after saveScvfVars(),
\* -- restored after restoreScvfVars(), none after a new binding --
SnapSave == fluxSnap' = [st |-> "open", vars |-> scvfVars_]
SnapRestore == fluxSnap' = [st |-> "restored", vars |-> EmptyBuf]
SnapRebind == fluxSnap' = NoSnap

NextFlux ==
    \/ \E elem \in Elements :
          updateAll(elem) /\ SnapRebind
          /\ UNCHANGED <<protoHist, pertHist, lastCall>>
    \/ \E priVars \in PriVals, scvIdx \in ScvIndices :
          updateScvVars(priVars, scvIdx, 0) /\ UNCHANGED ctxHist
    \/ updateAllScvfVars /\ UNCHANGED ctxHist
    \/ bound /\ saveScvfVars /\ SnapSave
       /\ UNCHANGED <<protoHist, pertHist, lastCall>>
    \/ fluxSnap.st = "open" /\ restoreScvfVars /\ SnapRestore
       /\ UNCHANGED <<protoHist, pertHist, lastCall>>

SpecFlux == InitCtx /\ [][NextFlux]_vars

\* C16: after saveScvfVars(), evalPointFluxVars(f, 0) is the flux variables
\* of face f as they were at the save, whatever the current flux variables
\* are recomputed to (updateAllScvfVars after a perturbation included),
\* until restoreScvfVars(); after the restore it is the current flux
\* variables of face f.
C16_SavedFluxIsEvalPoint ==
    \A scvfIdx \in 0..(numScvf - 1) :
        /\ fluxSnap.st = "open" =>
              evalPointFluxVars(scvfIdx, 0) = fluxSnap.vars[scvfIdx]
        /\ fluxSnap.st = "restored" =>
              evalPointFluxVars(scvfIdx, 0) = fluxVars(scvfIdx, 0)

\* C17: between saveScvVars(cv) and the matching restoreScvVars(cv), with
\* only updateScvVars calls in between, evalPointVolVars(cv, 0) is the
\* VolumeVariables cv had at the save; for every other CV at time level 0
\* and for every CV at every other time level it is the current volVars.
C17_EvalPointIsSavedVolVars ==
    proto.st \in {"saved", "perturbed"} =>
        \A scvIdx \in 0..(numScv - 1), timeIdx \in TimeLevels :
            evalPointVolVars(scvIdx, timeIdx)
                = IF scvIdx = proto.cv /\ timeIdx = 0
                  THEN proto.volVars
                  ELSE volVars(scvIdx, timeIdx)

\* the saved CV is perturbed away from its saved VolumeVariables, and the
\* element has another CV
C17_Witness ==
    /\ proto.st = "perturbed"
    /\ volVars(proto.cv, 0) # proto.volVars
    /\ numScv > 1

(***************************************************************************)
(* SpecFrame: the context with a record of the operation that ran last     *)
(***************************************************************************)
Called(op, scvIdx, elem) ==
    lastCall' = [op |-> op, scvIdx |-> scvIdx, elem |-> elem]

NextFrame ==
    \/ \E elem \in Elements :
          /\ updateAll(elem)
          /\ Called("updateAll", -1, elem)
          /\ UNCHANGED <<protoHist, pertHist, fluxSnap>>
    \/ \E priVars \in PriVals, scvIdx \in ScvIndices, timeIdx \in TimeLevels :
          /\ updateScvVars(priVars, scvIdx, timeIdx)
          /\ Called("updateScvVars", -1, NoGeom)
          /\ UNCHANGED <<protoHist, pertHist, fluxSnap>>
    \/ \E scvIdx \in ScvIndices :
          /\ saveScvVars(scvIdx)
          /\ Called("saveScvVars", scvIdx, NoGeom)
          /\ UNCHANGED <<protoHist, pertHist, fluxSnap>>
    \/ \E scvIdx \in ScvIndices :
          /\ restoreScvVars(scvIdx)
          /\ Called("restoreScvVars", scvIdx, NoGeom)
          /\ UNCHANGED <<protoHist, pertHist, fluxSnap>>

SpecFrame == InitCtx /\ [][NextFrame]_vars

\* C18: right after updateAll(elem), evalPointVolVars(cv, 0) equals
\* volVars(cv, 0) for every CV of elem, whatever preceded the call (a
\* freshly constructed context, or a saveScvVars for a previous element that
\* was never restored).
C18_EvalPointAfterBinding ==
    lastCall.op = "updateAll" =>
        \A scvIdx \in 0..(numScv - 1) :
            evalPointVolVars(scvIdx, 0) = volVars(scvIdx, 0)

\* the (primary variables, VolumeVariables) pair of a CV at a time level is
\* the same before and after the step
SameScv(scvIdx, timeIdx) ==
    /\ scvVars_'[scvIdx].priVars[timeIdx] = scvVars_[scvIdx].priVars[timeIdx]
    /\ scvVars_'[scvIdx].volVars[timeIdx] = scvVars_[scvIdx].volVars[timeIdx]

SameFlux == scvfVars_' = scvfVars_ /\ scvfVarsSaved_' = scvfVarsSaved_

\* C19: saveScvVars(cv) changes no primary variables or VolumeVariables of
\* any CV; restoreScvVars(cv) changes only the time-level-0 primary variables
\* and VolumeVariables of cv: every other CV, every time level >= 1 of cv
\* and all flux variables are left unchanged.
C19_SaveRestoreFrame ==
    [][/\ lastCall'.op = "saveScvVars" =>
            /\ DOMAIN scvVars_' = DOMAIN scvVars_
            /\ \A scvIdx \in DOMAIN scvVars_, timeIdx \in TimeLevels :
                  SameScv(scvIdx, timeIdx)
            /\ SameFlux
       /\ lastCall'.op = "restoreScvVars" =>
            /\ DOMAIN scvVars_' = DOMAIN scvVars_
            /\ \A scvIdx \in DOMAIN scvVars_, timeIdx \in TimeLevels :
                  (scvIdx # lastCall'.scvIdx \/ timeIdx >= 1) =>
                      SameScv(scvIdx, timeIdx)
            /\ SameFlux]_vars

\* a restore has just put back a CV of an element with several CVs and a
\* face, and the flux variables still are the ones computed before it
C19_Witness ==
    /\ lastCall.op = "restoreScvVars"
    /\ numScv > 1 /\ numScvf > 0
    /\ Level0(scvVars_[lastCall.scvIdx])
          = [priVars |-> priVarsSaved_, volVars |-> scvVarsSaved_]
    /\ \E scvfIdx \in 0..(numScvf - 1) :
          fluxVars(scvfIdx, 0) # FluxVarsUpdate(scvVars_, scvfIdx, numScv)

(***************************************************************************)
(* BoxElementContext::updateAll as the sequence of its calls               *)
(***************************************************************************)
\* FluxVariables::update(context, scvfIdx, timeIdx): from the adjacent
\* VolumeVariables of the given time level
FluxVarsUpdateAt(buf, scvfIdx, nv, timeIdx) ==
    [valid |-> TRUE,
     q |-> buf[FaceI(scvfIdx, nv)].volVars[timeIdx].q
           + buf[FaceJ(scvfIdx, nv)].volVars[timeIdx].q]

GeomCall == [op |-> "fvElemGeom_.update", idx |-> 0, timeIdx |-> 0]

\* updateAllScvVars: the loop over the history around the loop over the
\* sub-control volumes
ScvCalls(nv) ==
    [k \in 1..(timeDiscHistorySize * nv) |->
        [op |-> "volVars.update", idx |-> (k - 1) % nv,
         timeIdx |-> (k - 1) \div nv]]

\* updateAllScvfVars: the loop over the faces, each with time level 0
ScvfCalls(ne) ==
    [k \in 1..ne |-> [op |-> "fluxVars.update", idx |-> k - 1, timeIdx |-> 0]]

\* the flux variables are updated before the volume variables
UpdateAllCalls_fluxFirst(elem) ==
    <<GeomCall>> \o ScvfCalls(elem.numEdges) \o ScvCalls(elem.numVertices)

\* updateAll: updateFVElemGeom, updateAllScvVars, updateAllScvfVars
UpdateAllCalls(elem) ==
    <<GeomCall>> \o ScvCalls(elem.numVertices) \o ScvfCalls(elem.numEdges)

\* what one call does to the geometry and the two buffers
ApplyCall(st, call, elem) ==
    IF call.op = "fvElemGeom_.update"
    THEN [geom |-> elem,
          scv |-> GrowScvVars(st.scv, elem.numVertices),
          scvf |-> GrowScvfVars(st.scvf, elem.numEdges)]
    ELSE IF call.op = "volVars.update"
    THEN [st EXCEPT !.scv =
            UpdateScv([st.scv EXCEPT ![call.idx].hint[call.timeIdx] =
                          ModelHint(VertexMap(call.idx), call.timeIdx)],
                      GlobalSol(VertexMap(call.idx), call.timeIdx),
                      call.idx, call.timeIdx)]
    ELSE [st EXCEPT !.scvf[call.idx] =
            FluxVarsUpdateAt(st.scv, call.idx, st.geom.numVertices,
                             call.timeIdx)]

RECURSIVE RunCalls(_, _, _)
RunCalls(st, calls, elem) ==
    IF calls = << >> THEN st
    ELSE RunCalls(ApplyCall(st, Head(calls), elem), Tail(calls), elem)

\* -- the order of the calls --
GeometryFirst(calls) ==
    /\ calls[1].op = "fvElemGeom_.update"
    /\ \A k \in 2..Len(calls) : calls[k].op # "fvElemGeom_.update"

EveryCvEveryLevel(calls, elem) ==
    \A scvIdx \in 0..(elem.numVertices - 1), timeIdx \in TimeLevels :
        \E k \in 1..Len(calls) :
            calls[k] = [op |-> "volVars.update", idx |-> scvIdx,
                        timeIdx |-> timeIdx]

VolVarsBeforeFluxVars(calls) ==
    \A k, l \in 1..Len(calls) :
        (calls[k].op = "volVars.update" /\ calls[l].op = "fluxVars.update")
            => k < l

EveryFaceAtLevel0(calls, elem) ==
    /\ \A scvfIdx \in 0..(elem.numEdges - 1) :
          \E k \in 1..Len(calls) :
              calls[k] = [op |-> "fluxVars.update", idx |-> scvfIdx,
                          timeIdx |-> 0]
    /\ \A k \in 1..Len(calls) :
          calls[k].op = "fluxVars.update" => calls[k].timeIdx = 0

\* SpecBind: bindings to elements between arbitrary updates of single CVs
NextBind ==
    \/ \E elem \in Elements :
          /\ updateAll(elem)
          /\ Called("updateAll", -1, elem)
          /\ UNCHANGED <<protoHist, pertHist, fluxSnap>>
    \/ \E priVars \in PriVals, scvIdx \in ScvIndices, timeIdx \in TimeLevels :
          /\ updateScvVars(priVars, scvIdx, timeIdx)
          /\ Called("updateScvVars", -1, NoGeom)
          /\ UNCHANGED <<protoHist, pertHist, fluxSnap>>

SpecBind == InitCtx /\ [][NextBind]_vars

\* C20: within updateAll(elem) the geometry is bound first, then the
\* VolumeVariables of every CV at every time level of the history are
\* updated, and only after all of them the first FluxVariables update runs;
\* every face's FluxVariables is updated with time level 0.  The calls, run
\* one after the other in that order, give what updateAll leaves behind.
C20_VolVarsBeforeFluxVars ==
    [][lastCall'.op = "updateAll" =>
          \A elem \in {lastCall'.elem} :
          \A calls \in {UpdateAllCalls(elem)} :
             /\ GeometryFirst(calls)
             /\ EveryCvEveryLevel(calls, elem)
             /\ VolVarsBeforeFluxVars(calls)
             /\ EveryFaceAtLevel0(calls, elem)
             /\ RunCalls([geom |-> fvElemGeom_, scv |-> scvVars_,
                          scvf |-> scvfVars_], calls, elem)
                   = [geom |-> fvElemGeom_', scv |-> scvVars_',
                      scvf |-> scvfVars_']]_vars

\* updateAll has just bound an element with several CVs and a face whose
\* flux variables follow from the VolumeVariables it has just recomputed
C20_Witness ==
    /\ lastCall.op = "updateAll"
    /\ numScv > 1 /\ numScvf > 0
    /\ \A scvIdx \in 0..(numScv - 1), timeIdx \in TimeLevels :
          volVars(scvIdx, timeIdx)
              = VolVarsUpdate(GlobalSol(VertexMap(scvIdx), timeIdx))
    /\ \A scvfIdx \in 0..(numScvf - 1) :
          fluxVars(scvfIdx, 0) = FluxVarsUpdate(scvVars_, scvfIdx, numScv)

(***************************************************************************)
(* Claims about the upwinding of FVPressure1P::assemble                    *)
(***************************************************************************)
\* the density the gravity term of interior face k of cell i is to use,
\* read off the potential of the face in this pass (the one the pass stores)
GravityDensity(i, k) ==
    LET j == Faces(i)[k].outside
        rhoMean == (Density(i) + Density(j)) \div 2
    IN IF first THEN rhoMean
       ELSE IF varPotential[i][k] > 0 THEN Density(i)
       ELSE IF varPotential[i][k] < 0 THEN Density(j)
       ELSE rhoMean

GravityTerm(i, k) ==
    GravityDensity(i, k) * (Permeability(i, k) * NormalGravity(i, k))
        * Faces(i)[k].faceArea

\* C21: the density of the gravity term of an interior face is the density
\* of cell i when the face potential is positive, of neighbour j when it is
\* negative and the arithmetic mean of both when it is zero; on the first
\* assembly every interior face uses the mean and the stored potentials are
\* neither read nor written.
C21_UpwindDensity ==
    pc = "solve" =>
        /\ \A i \in Cells :
              f_[i] = ((SourceTerm(i)
                        - SumOver([k \in DOMAIN Faces(i) |-> GravityTerm(i, k)],
                                  InteriorFaces(i)))
                       + SumOver([k \in DOMAIN Faces(i) |->
                                     BoundaryEntry(i, k) * BcValue(i, k)
                                     - BoundaryRightEntry(i, k)],
                                 DirichletFaces(i)))
                      - SumOver([k \in DOMAIN Faces(i) |-> NeumannFlux(i, k)],
                                NeumannFaces(i))
        /\ first => varPotential = pot0

\* densities differ across a face; a later pass has met a positive, a
\* negative and a zero face potential
C21_Witness ==
    /\ pc = "solve" /\ ~first
    /\ \E i \in Cells : \E k \in InteriorFaces(i) :
          varPotential[i][k] > 0 /\ Density(i) # Density(Faces(i)[k].outside)
    /\ \E i \in Cells : \E k \in InteriorFaces(i) :
          varPotential[i][k] < 0 /\ Density(i) # Density(Faces(i)[k].outside)
    /\ \E i \in Cells : \E k \in InteriorFaces(i) :
          varPotential[i][k] = 0 /\ Density(i) # Density(Faces(i)[k].outside)

\* a first assembly that starts from stored potentials that are not zero
C21_WitnessFirst ==
    /\ pc = "solve" /\ first
    /\ \E i \in Cells : \E k \in InteriorFaces(i) :
          pot0[i][k] # 0 /\ Density(i) # Density(Faces(i)[k].outside)

\* the potential of interior face k of cell i in the pass that has just run
PassPotential(i, k) == IF first THEN 0 ELSE varPotential[i][k]

\* the gravity term of the face with the arithmetic mean of the densities,
\* its value at zero potential
MeanGravityTerm(i, k) ==
    ((Density(i) + Density(Faces(i)[k].outside)) \div 2)
        * (Permeability(i, k) * NormalGravity(i, k)) * Faces(i)[k].faceArea

\* the smallest potential differences the model has, on either side of zero
NearZero(p) == p \in {-1, 0, 1}

\* C22: the upwinded term of an interior face has no jump as the potential
\* crosses zero: for the smallest positive and the smallest negative
\* potential the gravity term of FVPressure1P::assemble is what it is at
\* zero potential, the arithmetic-mean value.
C22_NoJumpAtZero ==
    pc = "solve" =>
        \A i \in Cells :
            (\A k \in InteriorFaces(i) : NearZero(PassPotential(i, k))) =>
                f_[i] = ((SourceTerm(i)
                          - SumOver([k \in DOMAIN Faces(i) |-> MeanGravityTerm(i, k)],
                                    InteriorFaces(i)))
                         + SumOver([k \in DOMAIN Faces(i) |->
                                       BoundaryEntry(i, k) * BcValue(i, k)
                                       - BoundaryRightEntry(i, k)],
                                   DirichletFaces(i)))
                        - SumOver([k \in DOMAIN Faces(i) |-> NeumannFlux(i, k)],
                                  NeumannFaces(i))

(***************************************************************************)
(* SpecResidual: computeFlux on every face of FaceInputs                   *)
(***************************************************************************)
InitResidual ==
    /\ CtxParked /\ FVParked /\ InitPar /\ GridAtStart /\ RestartParked
    /\ Created
    /\ faceIn \in FaceInputs
    /\ flux = NoFlux

NextResidual == computeFlux

SpecResidual == InitResidual /\ [][NextResidual]_vars

\* the diffusive and dispersive part of the transport component returned
DiffusivePart(in) == FinalSign * (DiffusiveFlux(in) + DispersiveFlux(in))

\* C23: the flux computeFlux returns is the flux from CV i into CV j: the
\* continuity component is positive exactly when the Darcy flow goes from i
\* to j (the pressure is higher at i), and the diffusive part of the
\* transport component is positive exactly when the concentration is higher
\* at i; both parts use the same sign convention.
C23_FluxFromIToJ ==
    flux.set =>
        /\ flux.conti > 0 <=> faceIn.pI > faceIn.pJ
        /\ DiffusivePart(faceIn) > 0 <=> faceIn.cI > faceIn.cJ

\* the upwinded terms of computeFlux vanish with the potential difference:
\* they are the normal flux times a mobility that stays within the two CVs'
AdvectionVanishesAtZero ==
    flux.set =>
        /\ NormalFlux(faceIn) = 0 => flux.conti = 0
        /\ \A sign \in {-1, 1} :
              sign * flux.conti <=
                  (IF NormalFlux(faceIn) > 0 THEN NormalFlux(faceIn)
                   ELSE -NormalFlux(faceIn)) * AlphaUnit * 4

(***************************************************************************)
(* SpecRestart: time steps, checkpoints and restarts on every rank         *)
(***************************************************************************)
\* checkpoints are local to a rank: the first two ranks take and read them
RestartRanks == Ranks \cap 0..1

NextRestart ==
    \/ \E r \in RestartRanks : serialize(r)
    \/ \E r \in RestartRanks : deserialize(r)
    \/ \E r \in RestartRanks, d \in Dofs, priVars \in PriVals :
          timeStep(r, d, priVars)

SpecRestart == InitSync /\ [][NextRestart]_vars

\* C24: after deserialize() the previous-time-level solution (time index 1)
\* equals the current solution (time index 0) at every DOF, and the current
\* solution is the per-element primary variables read from the checkpoint;
\* the checkpoint holds primary variables per element and nothing else.
C24_RestartLevelsAgree ==
    \A r \in Ranks :
        /\ resumed[r] =>
              \A d \in LocalDofs(r) :
                  /\ solution[r][1][d] = solution[r][0][d]
                  /\ solution[r][0][d] = restartFile[r][d]
        /\ restartFile[r] # NoFile => restartFile[r] \in [LocalDofs(r) -> PriVals]

\* a rank has resumed from a checkpoint taken after the solution had left
\* its initial values
C24_Witness ==
    \E r \in Ranks :
        /\ resumed[r]
        /\ \E d \in LocalDofs(r) : restartFile[r][d] # 0
        /\ \E d \in LocalDofs(r) : restartFile[r][d] = 0

(***************************************************************************)
(* SpecSplit: a row of cells whose interfaces consist of two faces each    *)
(***************************************************************************)
\* every cell has the intersections 0 and 2 towards lower indices and 1
\* and 3 towards higher ones: two faces of a cell lead to the same neighbour
SplitFaces(n) ==
    [i \in 0..(n - 1) |->
        [k \in 0..3 |->
            LET j == IF k % 2 = 0 THEN i - 1 ELSE i + 1
                inside == j \in 0..(n - 1)
            IN [neighbor |-> inside,
                boundary |-> ~inside,
                outside  |-> IF inside THEN j ELSE -1,
                normal   |-> IF k % 2 = 0 THEN -1 ELSE 1,
                dist     |-> IF inside THEN 2 ELSE 1,
                faceArea |-> 1]]]

SplitGrid(n, traversal) ==
    [n |-> n, faces |-> SplitFaces(n), volume |-> [i \in 0..(n - 1) |-> 2],
     traversal |-> traversal]

SplitBoundaryFaces(n) ==
    {<<i, k>> \in (0..(n - 1)) \X (0..3) : SplitFaces(n)[i][k].boundary}

\* either fluid, a Neumann flux or a Dirichlet pressure on the lower end and
\* a Neumann flux on the upper end
SplitProblems ==
    {[grid |-> SplitGrid(NumCells, "ascending"),
      density |-> fl.density,
      viscosity |-> fl.viscosity,
      permeability |-> UniformOn(NumCells, 8),
      source |-> UniformOn(NumCells, 4),
      gravity |-> 1,
      bcType |-> [b \in SplitBoundaryFaces(NumCells) |->
                    IF b[1] = 0 THEN lower ELSE "neumann"],
      bcValue |-> [b \in SplitBoundaryFaces(NumCells) |-> 4]] :
        fl \in Fluids, lower \in {"dirichlet", "neumann"}}

InitSplit == CtxParked /\ ExtParked /\ \E prob \in SplitProblems : InitFVWith(prob)

SpecSplit == InitSplit /\ [][NextPass]_vars

\* the sum of the off-diagonal entries of row i
OffDiagonalSum(i) == SumOver(A_[i], Cells \ {i})

\* C25: after assemble(), for every element none of whose faces is a
\* Dirichlet boundary face, the diagonal entry of its row equals minus the
\* sum of the off-diagonal entries of that row, also on a mesh where two
\* faces of an element lead to the same neighbour element.
C25_RowSumZero ==
    pc = "solve" =>
        \A i \in Cells :
            DirichletFaces(i) = {} => A_[i][i] = -OffDiagonalSum(i)

(***************************************************************************)
(* SpecOwn: the life of a grid manager, with the contexts built on its     *)
(* grid and the redistributions of the grid                                *)
(***************************************************************************)
NextOwn ==
    \/ releaseEquilGrid
    \/ destroy
    \/ phase = "created" /\ loadBalance
    \/ phase = "created" /\ construct /\ UNCHANGED ctxHist

SpecOwn == InitCtx /\ [][NextOwn]_vars

\* C26: for a grid manager whose grids were created by createGrids_, any
\* sequence of releaseEquilGrid() calls followed by destruction deletes the
\* EQUIL grid exactly once, and deletes the simulation grid and the
\* Cartesian index mapper exactly once, at destruction.
C26_EachObjectDeletedOnce ==
    /\ phase = "destroyed" => \A o \in Objects : heap[o] = 1
    /\ phase = "created" =>
          /\ heap[GridObj] = 0 /\ heap[MapperObj] = 0
          /\ heap[EquilGridObj] = (IF releases > 0 THEN 1 ELSE 0)

\* the manager was destroyed after releaseEquilGrid() had been called twice
C26_Witness == phase = "destroyed" /\ releases > 1

====
